---- MODULE Spec2Model ----
(***************************************************************************)
(* docker-backup-maestro: the reconciler (initBackupers, createBackuper,   *)
(* updateBackuper, dropBackuper), the event loop (syncBackupers), the      *)
(* one-off runner and the management operations, over a model of the       *)
(* container engine.  Every handler is one action; the engine calls a      *)
(* handler makes are threaded through a "world" record                     *)
(*   [cntrs, images, log, n, failAt, rev]                                  *)
(* whose log lists the calls in the order the code issues them.  The       *)
(* failAt-th engine call of a handler returns an error (0: none does).     *)
(***************************************************************************)
EXTENDS Integers, Sequences, FiniteSets, TLC

\* ---------------------------------------------------------------- bounds
Names == {"a"}

MaxId == 3

MaxTargets == 1

MaxFail == 12

MaxEvents == 1

\* --------------------------------------------------------------- strings
None == "<none>"

NoHash == <<>>

AnyValue == "*"

Live == {"running", "restarting"}

ContainerStatusRunning == "running"

ContainerStatusRestarting == "restarting"

\* label keys, as prepareLabels derives them from a LABEL_PREFIX
LabelsOf(prefix) ==
    [backupName |-> prefix \o ".backup.name",
     backuperName |-> prefix \o ".backuper.name",
     backuperConsistencyHash |-> prefix \o ".backuper.consistencyhash",
     restore |-> prefix \o ".restore",
     forceBackup |-> prefix \o ".forcebackup"]

\* the keys of the daemon under the default LABEL_PREFIX
prepareLabels == LabelsOf("docker-backup-maestro")

\* the label set of a container or template: the daemon's keys and one label
\* of the user's (None: label absent); prefix is the LABEL_PREFIX the keys of
\* the set were derived from
NoLabels ==
    [backupName |-> None, backuperName |-> None, hash |-> NoHash,
     restore |-> None, forceBackup |-> None, user |-> None,
     prefix |-> "docker-backup-maestro"]

\* the target labels prepareBackuperConfigFor reads: path (0: absent),
\* mpath (pairs <<suffix, host>>), vols (raw binds), env (pairs), nets
NoTargetLabels == [path |-> 0, mpath |-> {}, vols |-> {}, env |-> {}, nets |-> <<>>]

TargetLabelChoices ==
    { [NoTargetLabels EXCEPT !.path = 1],
      [NoTargetLabels EXCEPT !.path = 2, !.nets = <<2, 1>>] }

\* ---------------------------------------------------------------- config
Config ==
    [BindToPath |-> 5,
     BackupNameFormat |-> <<"docker-backup-maestro.backup_", "{name}">>,
     RestoreNameFormat |-> <<"docker-backup-maestro.restore_", "{name}">>,
     ForceNameFormat |-> <<"docker-backup-maestro.forcebackup_", "{name}">>,
     BackupTag |-> "docker-backup-maestro.backup",
     RestoreTag |-> "docker-backup-maestro.restore",
     ForceTag |-> "docker-backup-maestro.forcebackup",
     AlwaysRw |-> FALSE]

\* strings.ReplaceAll(format, "{name}", name) on a format split in tokens
ReplaceAll(format, name) ==
    [i \in DOMAIN format |-> IF format[i] = "{name}" THEN name ELSE format[i]]

\* a bind "host:BindToPath[/dir][:ro]" as a number that keeps the order of
\* the strings (host first, then dir, then the :ro suffix)
Bind(host, dir, ro) == host * 100 + dir * 10 + (IF ro THEN 1 ELSE 0)

\* ------------------------------------------------------------- templates
NoBuild == [Context |-> "", Dockerfile |-> "", DependentBuilds |-> <<>>]

EmptyTemplate ==
    [Build |-> NoBuild, Image |-> <<>>, Entrypoint |-> <<>>, Command |-> <<>>,
     Restart |-> <<>>, EnvFile |-> <<>>, Environment |-> {}, Volumes |-> <<>>,
     Labels |-> NoLabels, Networks |-> <<>>, Devices |-> <<>>,
     Privileged |-> FALSE, autoRemove |-> FALSE]

\* the user templates the daemon was started with (RunApp)
UserTemplates ==
    [Backuper |-> [EmptyTemplate EXCEPT !.Image = <<"alpine", "">>, !.Volumes = <<700>>],
     Restore |-> [EmptyTemplate EXCEPT !.Image = <<"restore", "">>, !.Volumes = <<700>>],
     ForceBackup |-> [EmptyTemplate EXCEPT !.Image = <<"alpine", "">>, !.Volumes = <<700>>]]

\* user templates with a label: restore and force-backup overlay an image on
\* the backuper template
LabelledTemplates ==
    [Backuper |-> [EmptyTemplate EXCEPT !.Image = <<"alpine", "">>, !.Volumes = <<700>>,
                                        !.Labels = [NoLabels EXCEPT !.user = "x"]],
     Restore |-> [EmptyTemplate EXCEPT !.Image = <<"restore", "">>, !.Volumes = <<700>>,
                                       !.Labels = [NoLabels EXCEPT !.user = "x"]],
     ForceBackup |-> [EmptyTemplate EXCEPT !.Image = <<"alpine", "">>, !.Volumes = <<700>>,
                                           !.Labels = [NoLabels EXCEPT !.user = "x"]]]

\* user templates with a build: the backuper is built from "." after two
\* dependent builds, force-backup overlays nothing on the backuper template,
\* and the restore template, read on its own (NoRestoreOverlay), names an
\* image of a registry with a port
BuildTemplates ==
    [Backuper |-> [EmptyTemplate EXCEPT
                      !.Build = [Context |-> ".", Dockerfile |-> "",
                                 DependentBuilds |->
                                    <<[Context |-> "base", Dockerfile |-> "",
                                       Tag |-> <<"base", "1">>],
                                      [Context |-> "tools", Dockerfile |-> "",
                                       Tag |-> <<"tools", "">>]>>],
                      !.Volumes = <<700>>],
     Restore |-> [EmptyTemplate EXCEPT !.Image = <<"reg:5000/restore", "">>,
                                       !.Volumes = <<700>>],
     ForceBackup |-> [EmptyTemplate EXCEPT
                      !.Build = [Context |-> ".", Dockerfile |-> "",
                                 DependentBuilds |->
                                    <<[Context |-> "base", Dockerfile |-> "",
                                       Tag |-> <<"base", "1">>],
                                      [Context |-> "tools", Dockerfile |-> "",
                                       Tag |-> <<"tools", "">>]>>],
                      !.Volumes = <<700>>]]

Range(s) == {s[i] : i \in DOMAIN s}

Contains(s, v) == v \in Range(s)

\* slices.Sort left out
Sort_Unsorted(s) == s

Sort(s) == SortSeq(s, LAMBDA x, y : x < y)

\* the loop without slices.Contains
AppendNew_All(s, other) == s \o other

RECURSIVE AppendNew(_, _)
\* for _, v := range other { if !slices.Contains(s, v) { s = append(s, v) } }
AppendNew(s, other) ==
    IF other = <<>> THEN s
    ELSE AppendNew(IF Contains(s, Head(other)) THEN s ELSE Append(s, Head(other)),
                   Tail(other))

\* maps.Copy(dst, src) on maps kept as sets of <<key, value>> pairs
MapsCopy(dst, src) ==
    {p \in dst : \A q \in src : q[1] # p[1]} \cup src

\* maps.Copy on the label record: a label other sets overrides
LabelsCopy(dst, src) ==
    [backupName |-> IF src.backupName # None THEN src.backupName ELSE dst.backupName,
     backuperName |-> IF src.backuperName # None THEN src.backuperName ELSE dst.backuperName,
     hash |-> IF src.hash # NoHash THEN src.hash ELSE dst.hash,
     restore |-> IF src.restore # None THEN src.restore ELSE dst.restore,
     forceBackup |-> IF src.forceBackup # None THEN src.forceBackup ELSE dst.forceBackup,
     user |-> IF src.user # None THEN src.user ELSE dst.user,
     prefix |-> dst.prefix]

\* a build counted as present only when it has a context
HasBuild_ContextOnly(t) == t.Build.Context # ""

HasBuild(t) == t.Build.Context # "" \/ t.Build.Dockerfile # ""

Overlay(tmpl, other) ==
    LET t1 == IF HasBuild(other)
              THEN [tmpl EXCEPT !.Build = other.Build,
                                !.Image = IF other.Image = <<>> THEN <<>> ELSE @]
              ELSE tmpl
        t2 == IF other.Image # <<>>
              THEN [t1 EXCEPT !.Image = other.Image,
                              !.Build = IF ~HasBuild(other) THEN NoBuild ELSE @]
              ELSE t1
        nets == Sort(AppendNew(t2.Networks, other.Networks))
        \* newTmpl.Networks = append(newTmpl.Devices, k), for each new device k
        RECURSIVE Dev(_, _)
        Dev(n, ds) == IF ds = <<>> THEN n
                      ELSE Dev(IF Contains(t2.Devices, Head(ds)) THEN n
                               ELSE Append(t2.Devices, Head(ds)), Tail(ds))
    IN  [t2 EXCEPT
            !.Entrypoint = IF other.Entrypoint # <<>> THEN other.Entrypoint ELSE @,
            !.Command = IF other.Command # <<>> THEN other.Command ELSE @,
            !.Environment = MapsCopy(@, other.Environment),
            !.Restart = IF other.Restart # <<>> THEN other.Restart ELSE @,
            !.EnvFile = Sort(@ \o other.EnvFile),
            !.Volumes = Sort(AppendNew(@, other.Volumes)),
            !.Labels = LabelsCopy(@, other.Labels),
            !.Networks = Dev(nets, other.Devices),
            !.Devices = Sort(@),
            !.Privileged = @ \/ other.Privileged]

\* md5 of the JSON encoding of the exported fields, in declaration order
Hash(tmpl) ==
    <<tmpl.Build, tmpl.Image, tmpl.Entrypoint, tmpl.Command, tmpl.Restart,
      tmpl.EnvFile, tmpl.Environment, tmpl.Volumes, tmpl.Labels,
      tmpl.Networks, tmpl.Devices, tmpl.Privileged>>

\* newTmpl := *tmpl in place of deepcopy.Copy(&newTmpl, tmpl): the labels of
\* the new template are the map of tmpl
OverlayLabels_Shallow(tmpl, other) ==
    IF tmpl.Labels = NoLabels THEN "other" ELSE "tmpl"

\* the map that holds the labels of tmpl.Overlay(other): the one
\* deepcopy.Copy made for newTmpl, or the map of other when tmpl has no
\* labels (newTmpl.Labels = other.Labels)
OverlayLabels(tmpl, other) ==
    IF tmpl.Labels = NoLabels THEN "other" ELSE "copy"

\* the manager once labels were written to the template that
\* mngr.tmpls[which].Overlay(other) returned (maps.Copy in Overlay, the hash
\* label in createBackuper): the template of the manager has them too if the
\* two share the map
Derive(w, which, other, labels) ==
    IF OverlayLabels(w.tmpls[which], other) = "tmpl"
    THEN [w EXCEPT !.tmpls[which].Labels = labels]
    ELSE w

\* ---------------------------------------------------------------- engine
\* the engine as one handler or command sees it, with the templates its
\* process has loaded; stream: what the progress stream of the failAt-th engine
\* call carries when that call is an image pull or build (<<>>: the call
\* itself returns an error)
World(c, im, failAt, rev) ==
    [cntrs |-> c, images |-> im, log |-> <<>>, n |-> 0, failAt |-> failAt, rev |-> rev,
     tmpls |-> UserTemplates, stream |-> <<>>, used |-> {}]

\* one entry of the call log; unused fields keep their defaults
E(op, id, name) ==
    [op |-> op, id |-> id, name |-> name, key |-> None, all |-> FALSE,
     cname |-> <<>>, labels |-> NoLabels, image |-> <<>>, autoRemove |-> FALSE]

Fails(w) == w.failAt = w.n + 1

Pending(w) == w.failAt > w.n

Call(w, e) == [w EXCEPT !.n = @ + 1, !.log = Append(@, e)]

Mark(w, e) == [w EXCEPT !.log = Append(@, e)]

Ret(w, err, val) == [w |-> w, err |-> err, val |-> val]

\* every key is compared without regard to the prefix it was derived from
Label_AnyPrefix(c, key) ==
    CASE key = prepareLabels.backupName -> c.labels.backupName
      [] key = prepareLabels.backuperName -> c.labels.backuperName
      [] key = prepareLabels.restore -> c.labels.restore
      [] key = prepareLabels.forceBackup -> c.labels.forceBackup
      [] OTHER -> None

\* the value of label key on c (None: c has no label of that key)
Label(c, key) ==
    LET k == LabelsOf(c.labels.prefix)
    IN  CASE key = k.backupName -> c.labels.backupName
          [] key = k.backuperName -> c.labels.backuperName
          [] key = k.restore -> c.labels.restore
          [] key = k.forceBackup -> c.labels.forceBackup
          [] OTHER -> None

RECURSIVE ById(_, _)
\* the containers of S as a list, in the order the engine returns them
ById(S, rev) ==
    IF S = {} THEN <<>>
    ELSE LET c == CHOOSE x \in S : \A y \in S :
                      IF rev THEN x.id >= y.id ELSE x.id <= y.id
         IN  <<c>> \o ById(S \ {c}, rev)

\* ContainerList with filter label=key (value AnyValue) or label=key=value;
\* without All only running containers are returned
ContainerList(w, key, value, all) ==
    LET w1 == Call(w, [E("container_list", 0, value) EXCEPT !.key = key, !.all = all])
        m == {c \in w.cntrs : /\ Label(c, key) # None
                              /\ value = AnyValue \/ Label(c, key) = value
                              /\ all \/ c.state \in Live}
    IN  IF Fails(w) THEN Ret(w1, "engine", <<>>) ELSE Ret(w1, "nil", ById(m, w.rev))

\* the engine gives no id twice: used holds the ids of containers removed
\* while other processes may still hold them
FreeIds(w) == {i \in 1..MaxId : i \notin w.used /\ \A c \in w.cntrs : c.id # i}

\* an engine that gives a name to any number of containers
ContainerCreate_AnyName(w, cc, cntrName) ==
    LET id == IF FreeIds(w) = {} THEN 0
              ELSE CHOOSE i \in FreeIds(w) : \A j \in FreeIds(w) : i <= j
        w1 == Call(w, [E("container_create", id, None) EXCEPT
                          !.cname = cntrName, !.labels = cc.labels,
                          !.image = cc.image, !.autoRemove = cc.autoRemove])
        c == [id |-> id, state |-> "created", cname |-> cntrName,
              labels |-> cc.labels, tl |-> NoTargetLabels, autoRemove |-> cc.autoRemove]
    IN  IF Fails(w) \/ id = 0 THEN Ret(w1, "engine", <<>>)
        ELSE Ret([w1 EXCEPT !.cntrs = @ \cup {c}], "nil", <<id>>)

\* the engine refuses the request (id 0) when it has no room or when a
\* container of that name exists; without a name (<<>>) it makes one up
ContainerCreate(w, cc, cntrName) ==
    LET id == IF \/ FreeIds(w) = {}
                 \/ cntrName # <<>> /\ \E x \in w.cntrs : x.cname = cntrName
              THEN 0
              ELSE CHOOSE i \in FreeIds(w) : \A j \in FreeIds(w) : i <= j
        w1 == Call(w, [E("container_create", id, None) EXCEPT
                          !.cname = cntrName, !.labels = cc.labels,
                          !.image = cc.image, !.autoRemove = cc.autoRemove])
        c == [id |-> id, state |-> "created", cname |-> cntrName,
              labels |-> cc.labels, tl |-> NoTargetLabels, autoRemove |-> cc.autoRemove]
    IN  IF Fails(w) \/ id = 0 THEN Ret(w1, "engine", <<>>)
        ELSE Ret([w1 EXCEPT !.cntrs = @ \cup {c}], "nil", <<id>>)

SetState(cntrs, id, st) ==
    {IF c.id = id THEN [c EXCEPT !.state = st] ELSE c : c \in cntrs}

\* No such container: id
Missing(w, id) == \A c \in w.cntrs : c.id # id

ContainerStart(w, id) ==
    LET w1 == Call(w, E("container_start", id, None))
    IN  IF Fails(w) \/ Missing(w, id) THEN Ret(w1, "engine", <<>>)
        ELSE Ret([w1 EXCEPT !.cntrs = SetState(@, id, "running")], "nil", <<>>)

ContainerStop(w, id) ==
    LET w1 == Call(w, E("container_stop", id, None))
    IN  IF Fails(w) \/ Missing(w, id) THEN Ret(w1, "engine", <<>>)
        ELSE Ret([w1 EXCEPT !.cntrs = SetState(@, id, "exited")], "nil", <<>>)

ContainerRemove(w, id) ==
    LET w1 == Call(w, E("container_remove", id, None))
    IN  IF Fails(w) \/ Missing(w, id) THEN Ret(w1, "engine", <<>>)
        ELSE Ret([w1 EXCEPT !.cntrs = {c \in @ : c.id # id}], "nil", <<>>)

ImageList(w) ==
    Ret(Call(w, E("image_list", 0, None)), IF Fails(w) THEN "engine" ELSE "nil", <<>>)

\* the body of an image pull or build: progress lines, and when the engine
\* could not make the image a line with an error; the image is there
\* afterwards, under its repository and its tag (latest for a reference without
\* one), unless the engine has reported such an error.  A reference without a
\* repository is refused
Progress(w, w1, tag) ==
    LET lines == IF Fails(w) THEN w.stream ELSE <<"status">>
        repoTag == IF tag[2] = "" THEN <<tag[1], "latest">> ELSE tag
    IN  IF (Fails(w) /\ w.stream = <<>>) \/ tag[1] = "" THEN Ret(w1, "engine", <<>>)
        ELSE Ret([w1 EXCEPT !.images = IF Contains(lines, "error") THEN @
                                        ELSE @ \cup {repoTag}], "nil", lines)

ImagePull(w, tag) ==
    Progress(w, Call(w, [E("image_pull", 0, None) EXCEPT !.image = tag]), tag)

ImageBuild(w, tag) ==
    Progress(w, Call(w, [E("image_build", 0, None) EXCEPT !.image = tag]), tag)

\* Events with a filter on container id (waitForStop)
Events(w, id) ==
    Ret(Call(w, E("events", id, None)), IF Fails(w) THEN "engine" ELSE "nil", <<>>)

\* if err != nil { return err }, then the rest of the function
Then(r, K(_)) == IF r.err # "nil" THEN r ELSE K(r)

\* ------------------------------------------------------------- docker.go
listContainersWithLabel(w, label, searchAll) ==
    ContainerList(w, label, AnyValue, searchAll)

getContainerByLabelValue(w, label, value, searchAll) ==
    Then(ContainerList(w, label, value, searchAll), LAMBDA r :
         IF Len(r.val) > 1 THEN Ret(r.w, "ambiguous", <<>>) ELSE r)

\* if !strings.Contains(tag, ":") { tag = tag + ":latest" }, on a reference
\* kept as <<repository, tag>>: the reference has a ":" when it has a tag or
\* when its repository names a registry with a port
Normalize(tag) ==
    IF tag = <<>> THEN <<"", "latest">>
    ELSE IF tag[2] = "" /\ tag[1] \notin {"reg:5000/restore"} THEN <<tag[1], "latest">>
    ELSE tag

RECURSIVE decode(_, _, _)
\* for { dec.Decode(&line) ... }: the loop over the lines of a pull (aux
\* FALSE) or build (aux TRUE) body; "build error: ..." is printed for a line
\* with an error
decode(w, lines, aux) ==
    IF lines = <<>> THEN Ret(w, "nil", <<>>)
    ELSE IF Head(lines) = "garbage" THEN Ret(w, "decode", <<>>)
    ELSE IF Head(lines) = "error" THEN Ret(Mark(w, E("build error", 0, None)), "stream", <<>>)
    ELSE IF Head(lines) = "badaux" /\ aux THEN Ret(w, "decode", <<>>)
    ELSE decode(w, Tail(lines), aux)

pullImage(w, tag, force) ==
    IF force
    THEN Then(ImagePull(w, Normalize(tag)), LAMBDA r : decode(r.w, r.val, FALSE))
    ELSE Then(ImageList(w), LAMBDA l :
              IF Normalize(tag) \in l.w.images THEN l
              ELSE Then(ImagePull(l.w, Normalize(tag)), LAMBDA r :
                        decode(r.w, r.val, FALSE)))

RECURSIVE buildImage(_, _, _, _), buildDeps(_, _, _)
\* buildImage building the owner before its dependent builds
buildImage_OwnerFirst(w, buildInfo, tag, force) ==
    Then(ImageList(w), LAMBDA l :
         IF Normalize(tag) \in l.w.images /\ ~force THEN l
         ELSE Then(ImageBuild(l.w, Normalize(tag)), LAMBDA r :
              Then(decode(r.w, r.val, TRUE), LAMBDA d :
                   buildDeps(d.w, buildInfo.DependentBuilds, force))))

buildImage(w, buildInfo, tag, force) ==
    Then(ImageList(w), LAMBDA l :
         IF Normalize(tag) \in l.w.images /\ ~force THEN l
         ELSE Then(buildDeps(l.w, buildInfo.DependentBuilds, force), LAMBDA d :
              Then(ImageBuild(d.w, Normalize(tag)), LAMBDA r :
                   decode(r.w, r.val, TRUE))))

\* for _, depBuild := range buildInfo.DependentBuilds
buildDeps(w, ds, force) ==
    IF ds = <<>> THEN Ret(w, "nil", <<>>)
    ELSE Then(buildImage(w, [Context |-> Head(ds).Context,
                             Dockerfile |-> Head(ds).Dockerfile,
                             DependentBuilds |-> <<>>], Head(ds).Tag, force),
              LAMBDA r : buildDeps(r.w, Tail(ds), force))

ValidRestart == {"", "no", "always", "unless-stopped", "on-failure"}

\* the restart string split on ":"; more than two parts is an error
parseRestart(restart) ==
    /\ Len(restart) <= 2
    /\ Len(restart) >= 1 => restart[1] \in ValidRestart
    /\ Len(restart) = 2 => restart[1] = "on-failure"

\* Template.CreateConfig: the parts of the create request the engine model
\* keeps (image, labels, binds, autoRemove) and the build info, if any
CreateConfig(tmpl, tag) ==
    [err |-> IF parseRestart(tmpl.Restart) THEN "nil" ELSE "config",
     buildInfo |-> IF HasBuild(tmpl) THEN <<tmpl.Build>> ELSE <<>>,
     image |-> IF HasBuild(tmpl) /\ tmpl.Image = <<>> THEN <<tag, "">> ELSE tmpl.Image,
     labels |-> tmpl.Labels,
     binds |-> tmpl.Volumes,
     autoRemove |-> tmpl.autoRemove]

createContainer(w, cfg, tag, cntrName) ==
    LET cc == CreateConfig(cfg, tag)
    IN  IF cc.err # "nil" THEN Ret(w, cc.err, <<>>)
        ELSE Then(IF cc.buildInfo # <<>>
                  THEN buildImage(w, cc.buildInfo[1], cc.image, FALSE)
                  ELSE pullImage(w, cc.image, FALSE),
                  LAMBDA img : ContainerCreate(img.w, cc, cntrName))

\* startBackuper without its ContainerStart (line 388)
startBackuper_NoStart(w, cfg, cntrName) ==
    createContainer(w, cfg, Config.BackupTag, cntrName)

startBackuper(w, cfg, cntrName) ==
    Then(createContainer(w, cfg, Config.BackupTag, cntrName), LAMBDA r :
         ContainerStart(r.w, r.val[1]))

containerIsAlive(cntr) ==
    /\ cntr # <<>>
    /\ cntr[1].state = ContainerStatusRunning \/ cntr[1].state = ContainerStatusRestarting

\* ------------------------------------------------------ containermanager.go
\* the characters of the backup names the model uses
Chars(name) ==
    CASE name = "a" -> <<"a">>
      [] name = "b" -> <<"b">>
      [] name = "" -> <<>>
      [] OTHER -> <<"x", " ", "y">>

Alphanumeric == {"a", "b", "x", "y", "0", "-", ".", "_"}

\* regexp ^[a-zA-Z0-9-._]*$
MatchString(name) == \A i \in DOMAIN Chars(name) : Chars(name)[i] \in Alphanumeric

RECURSIVE SetToSeq(_, _)
\* the elements of a set of numbers or pairs in one of the orders a Go map
\* iteration can produce
SetToSeq(S, rev) ==
    IF S = {} THEN <<>>
    ELSE LET x == CHOOSE v \in S : TRUE
         IN  IF rev THEN SetToSeq(S \ {x}, rev) \o <<x>> ELSE <<x>> \o SetToSeq(S \ {x}, rev)

\* the template prepareBackuperConfigFor derives from the labels of cntr
backuperBaseCfg(cntr, name, rw, rev, conf) ==
    LET tl == cntr.tl
        mp == SetToSeq(tl.mpath, rev)
        multi == [i \in DOMAIN mp |->
                    Bind(mp[i][2], mp[i][1], ~conf.AlwaysRw /\ ~rw)]
        single == IF tl.path # 0 THEN <<Bind(tl.path, 0, ~rw)>> ELSE <<>>
        volumes == (IF multi # <<>> THEN multi ELSE single) \o SetToSeq(tl.vols, rev)
    IN  [EmptyTemplate EXCEPT
            !.Labels = [NoLabels EXCEPT !.backuperName = name],
            !.Volumes = volumes,
            !.Environment = tl.env,
            !.Networks = tl.nets]

prepareBackuperConfigFor(w, name, rw) ==
    Then(getContainerByLabelValue(w, prepareLabels.backupName, name, TRUE), LAMBDA r :
         IF r.val = <<>> THEN Ret(r.w, "notfound", <<>>)
         ELSE Ret(r.w, "nil", <<backuperBaseCfg(r.val[1], name, rw, w.rev, Config)>>))

dropBackuper(w, name) ==
    Then(getContainerByLabelValue(Mark(w, E("dropBackuper", 0, name)),
                                  prepareLabels.backuperName, name, FALSE), LAMBDA r :
         IF r.val = <<>> THEN Ret(r.w, "nil", <<>>)
         ELSE Then(ContainerStop(r.w, r.val[1].id), LAMBDA s :
                   ContainerRemove(s.w, r.val[1].id)))

\* backuperCfg.Labels[mngr.labels.backuperConsistencyHash] = backuperCfg.Hash()
WithHash(cfg) == [cfg EXCEPT !.Labels.hash = Hash(cfg)]

RECURSIVE createBackuper(_, _, _), updateBackuper(_, _, _, _)
\* createBackuper without the lookup of an existing companion (lines 177-189)
\* and without a name for the container (line 202), which the engine then
\* names itself
createBackuper_NoLookup(w, name, seen) ==
    IF ~MatchString(name) THEN Ret(Mark(w, E("createBackuper", 0, name)), "nil", <<>>)
    ELSE Then(prepareBackuperConfigFor(Mark(w, E("createBackuper", 0, name)), name, FALSE),
              LAMBDA p :
              startBackuper(Derive(p.w, "Backuper", p.val[1],
                                   WithHash(Overlay(p.w.tmpls.Backuper, p.val[1])).Labels),
                            WithHash(Overlay(p.w.tmpls.Backuper, p.val[1])),
                            <<>>))

\* createBackuper looking for the existing companion among running containers
\* only (searchAll false on line 177)
createBackuper_RunningOnly(w, name, seen) ==
    IF ~MatchString(name) THEN Ret(Mark(w, E("createBackuper", 0, name)), "nil", <<>>)
    ELSE Then(getContainerByLabelValue(Mark(w, E("createBackuper", 0, name)),
                                       prepareLabels.backuperName, name, FALSE),
              LAMBDA existingBackuper :
              IF existingBackuper.val # <<>>
              THEN Then(getContainerByLabelValue(existingBackuper.w,
                                                 prepareLabels.backupName, name, TRUE),
                        LAMBDA existingBackup :
                        IF existingBackup.val = <<>>
                        THEN Ret(existingBackup.w, "panic", <<>>)
                        ELSE updateBackuper(existingBackup.w, existingBackup.val[1],
                                            existingBackuper.val[1], seen))
              ELSE Then(prepareBackuperConfigFor(existingBackuper.w, name, FALSE),
                        LAMBDA p :
                        startBackuper(Derive(p.w, "Backuper", p.val[1],
                                             WithHash(Overlay(p.w.tmpls.Backuper,
                                                              p.val[1])).Labels),
                                      WithHash(Overlay(p.w.tmpls.Backuper, p.val[1])),
                                      ReplaceAll(Config.BackupNameFormat, name))))

\* seen: the engine states and companion hashes with which updateBackuper was
\* already entered in this call chain; entering it again with one of them,
\* with no engine error left to come, repeats the chain without end ("diverge")
createBackuper(w, name, seen) ==
    IF ~MatchString(name) THEN Ret(Mark(w, E("createBackuper", 0, name)), "nil", <<>>)
    ELSE Then(getContainerByLabelValue(Mark(w, E("createBackuper", 0, name)),
                                       prepareLabels.backuperName, name, TRUE),
              LAMBDA existingBackuper :
              IF existingBackuper.val # <<>>
              THEN Then(getContainerByLabelValue(existingBackuper.w,
                                                 prepareLabels.backupName, name, TRUE),
                        LAMBDA existingBackup :
                        \* *existingBackup with existingBackup == nil
                        IF existingBackup.val = <<>>
                        THEN Ret(existingBackup.w, "panic", <<>>)
                        ELSE updateBackuper(existingBackup.w, existingBackup.val[1],
                                            existingBackuper.val[1], seen))
              ELSE Then(prepareBackuperConfigFor(existingBackuper.w, name, FALSE),
                        LAMBDA p :
                        startBackuper(Derive(p.w, "Backuper", p.val[1],
                                             WithHash(Overlay(p.w.tmpls.Backuper,
                                                              p.val[1])).Labels),
                                      WithHash(Overlay(p.w.tmpls.Backuper, p.val[1])),
                                      ReplaceAll(Config.BackupNameFormat, name))))

\* the entry of updateBackuper in the record: the companion it was given
UpdateMark(toBackup, backuper) ==
    [E("updateBackuper", backuper.id, toBackup.labels.backupName) EXCEPT
        !.labels = backuper.labels]

\* updateBackuper without the comparison of the hashes (lines 223-226)
updateBackuper_AlwaysRecreate(w, toBackup, backuper, seen) ==
    IF <<w.cntrs, backuper.labels.hash>> \in seen /\ ~Pending(w)
    THEN Ret(Mark(w, UpdateMark(toBackup, backuper)), "diverge", <<>>)
    ELSE Then(prepareBackuperConfigFor(Mark(w, UpdateMark(toBackup, backuper)),
                                       toBackup.labels.backupName, FALSE), LAMBDA p :
         Then(dropBackuper(p.w, toBackup.labels.backupName), LAMBDA d :
              createBackuper(d.w, toBackup.labels.backupName,
                             seen \cup {<<w.cntrs, backuper.labels.hash>>})))

updateBackuper(w, toBackup, backuper, seen) ==
    IF <<w.cntrs, backuper.labels.hash>> \in seen /\ ~Pending(w)
    THEN Ret(Mark(w, UpdateMark(toBackup, backuper)), "diverge", <<>>)
    ELSE Then(prepareBackuperConfigFor(Mark(w, UpdateMark(toBackup, backuper)),
                                       toBackup.labels.backupName, FALSE), LAMBDA p :
         IF Hash(Overlay(p.w.tmpls.Backuper, p.val[1])) = backuper.labels.hash
         THEN Ret(Derive(p.w, "Backuper", p.val[1],
                         Overlay(p.w.tmpls.Backuper, p.val[1]).Labels), "nil", <<>>)
         ELSE Then(dropBackuper(Derive(p.w, "Backuper", p.val[1],
                                       Overlay(p.w.tmpls.Backuper, p.val[1]).Labels),
                                toBackup.labels.backupName), LAMBDA d :
                   createBackuper(d.w, toBackup.labels.backupName,
                                  seen \cup {<<w.cntrs, backuper.labels.hash>>})))

\* for _, x := range cntrs { if x.Labels[label] == value { found = true; break } }
First(cntrs, label, value) ==
    LET m == {i \in DOMAIN cntrs : Label(cntrs[i], label) = value}
    IN  IF m = {} THEN <<>> ELSE <<cntrs[CHOOSE i \in m : \A j \in m : i <= j]>>

RECURSIVE initDrop(_, _, _)
\* first loop of initBackupers: companions no running target matches
initDrop(w, backupers, toBackups) ==
    IF backupers = <<>> THEN Ret(w, "nil", <<>>)
    ELSE IF First(toBackups, prepareLabels.backupName,
                  Head(backupers).labels.backuperName) # <<>>
    THEN initDrop(w, Tail(backupers), toBackups)
    ELSE Then(dropBackuper(w, Head(backupers).labels.backuperName), LAMBDA r :
              initDrop(r.w, Tail(backupers), toBackups))

\* mngr.updateBackuper(ctx, toBackup, backuper): the error is dropped (a panic
\* or an endless recursion is not an error value)
Discard(r, K(_)) == IF r.err \in {"panic", "diverge"} THEN r ELSE K(r)

RECURSIVE initSync(_, _, _)
\* second loop of initBackupers
initSync(w, toBackups, backupers) ==
    IF toBackups = <<>> THEN Ret(w, "nil", <<>>)
    ELSE IF First(backupers, prepareLabels.backuperName,
                  Head(toBackups).labels.backupName) # <<>>
    THEN Discard(updateBackuper(w, Head(toBackups),
                                First(backupers, prepareLabels.backuperName,
                                      Head(toBackups).labels.backupName)[1], {}),
                 LAMBDA u : initSync(u.w, Tail(toBackups), backupers))
    ELSE Then(createBackuper(w, Head(toBackups).labels.backupName, {}), LAMBDA c :
              initSync(c.w, Tail(toBackups), backupers))

initBackupers(w) ==
    Then(listContainersWithLabel(w, prepareLabels.backuperName, TRUE), LAMBDA backupers :
    Then(listContainersWithLabel(backupers.w, prepareLabels.backupName, FALSE),
         LAMBDA toBackups :
    Then(initDrop(toBackups.w, backupers.val, toBackups.val), LAMBDA d :
         initSync(d.w, toBackups.val, backupers.val))))

\* handleDockerEvent dispatching on start and die
handleDockerEvent_StartDie(w, event) ==
    IF event.action = "start" THEN createBackuper(w, event.name, {})
    ELSE IF event.action = "die" THEN dropBackuper(w, event.name)
    ELSE Ret(w, "nil", <<>>)

\* an event is [action, name]: the action and attrs[P.backup.name]
handleDockerEvent(w, event) ==
    IF event.action = "create" THEN createBackuper(w, event.name, {})
    ELSE IF event.action = "destroy" THEN dropBackuper(w, event.name)
    ELSE Ret(w, "nil", <<>>)

SetLabel(labels, key, value) ==
    CASE key = prepareLabels.restore -> [labels EXCEPT !.restore = value]
      [] key = prepareLabels.forceBackup -> [labels EXCEPT !.forceBackup = value]
      [] key = prepareLabels.backuperName -> [labels EXCEPT !.backuperName = value]
      [] key = prepareLabels.backupName -> [labels EXCEPT !.backupName = value]
      [] OTHER -> labels

\* waitForStop runs in a task of its own: race is the order of its Events
\* subscription, the start of the one-off and the exit of the one-off
Races == {"sub_start_die", "start_sub_die", "start_die_sub"}

\* the one-off has exited and the engine has removed it (auto_remove)
Exited(w, id) ==
    Mark([w EXCEPT !.cntrs = {x \in @ : x.id # id}], E("die", id, None))

\* the one-off started without the wait for its die event (lines 347-363)
startAndWait_NoWait(w, id, race) == ContainerStart(w, id)

\* go waitForStop(cntrId); ContainerStart(cntrId); <-errChan.  A one-off that
\* exits before waitForStop has subscribed is never reported ("hang")
startAndWait(w, id, race) ==
    IF race = "sub_start_die"
    THEN LET sub == Events(w, id)
         IN  Then(ContainerStart(sub.w, id), LAMBDA st :
                  IF sub.err # "nil" THEN Ret(st.w, sub.err, <<>>)
                  ELSE Ret(Exited(st.w, id), "nil", <<>>))
    ELSE Then(ContainerStart(w, id), LAMBDA st :
         Then(Events(st.w, id), LAMBDA sub :
              Ret(Exited(sub.w, id),
                  IF race = "start_die_sub" THEN "hang" ELSE "nil", <<>>)))

\* oneOffCfg without the delete of the backuperName label (line 333)
oneOffCfg_KeepLabel(base, tmpl, tag, name) ==
    [Overlay(tmpl, [base EXCEPT !.Labels = SetLabel(@, tag, name)])
        EXCEPT !.autoRemove = TRUE]

\* delete(oneOffCfg.Labels, backuperName); oneOffCfg.Labels[tag] = name;
\* oneOffCfg = tmpl.Overlay(oneOffCfg); oneOffCfg.autoRemove = true
oneOffCfg(base, tmpl, tag, name) ==
    [Overlay(tmpl, [base EXCEPT
                      !.Labels = SetLabel([@ EXCEPT !.backuperName = None], tag, name)])
        EXCEPT !.autoRemove = TRUE]

\* oneOffContainerFromTmpl looking the companion up among stopped containers
\* too (searchAll true on line 313)
oneOffContainerFromTmpl_SearchAll(w, name, tmpl, tag, cntrNameFormat, race) ==
    Then(getContainerByLabelValue(Mark(w, E("oneOff", 0, name)),
                                  prepareLabels.backuperName, name, TRUE),
         LAMBDA backuperCntr :
    Then(IF backuperCntr.val # <<>>
         THEN ContainerStop(backuperCntr.w, backuperCntr.val[1].id)
         ELSE Ret(backuperCntr.w, "nil", <<>>), LAMBDA s :
    Then(prepareBackuperConfigFor(s.w, name, TRUE), LAMBDA p :
    Then(createContainer(Derive(p.w, IF tag = Config.RestoreTag THEN "Restore"
                                     ELSE "ForceBackup", p.val[1],
                                oneOffCfg(p.val[1], tmpl, tag, name).Labels),
                         oneOffCfg(p.val[1], tmpl, tag, name), tag,
                         ReplaceAll(cntrNameFormat, name)), LAMBDA c :
    Then(startAndWait(c.w, c.val[1], race), LAMBDA d :
         IF containerIsAlive(backuperCntr.val)
         THEN ContainerStart(d.w, backuperCntr.val[1].id)
         ELSE Ret(d.w, "nil", <<>>))))))

\* oneOffContainerFromTmpl returning nil whatever the restart of the companion
\* returned (lines 367-370)
oneOffContainerFromTmpl_IgnoreRestart(w, name, tmpl, tag, cntrNameFormat, race) ==
    Then(getContainerByLabelValue(Mark(w, E("oneOff", 0, name)),
                                  prepareLabels.backuperName, name, FALSE),
         LAMBDA backuperCntr :
    Then(IF backuperCntr.val # <<>>
         THEN ContainerStop(backuperCntr.w, backuperCntr.val[1].id)
         ELSE Ret(backuperCntr.w, "nil", <<>>), LAMBDA s :
    Then(prepareBackuperConfigFor(s.w, name, TRUE), LAMBDA p :
    Then(createContainer(Derive(p.w, IF tag = Config.RestoreTag THEN "Restore"
                                     ELSE "ForceBackup", p.val[1],
                                oneOffCfg(p.val[1], tmpl, tag, name).Labels),
                         oneOffCfg(p.val[1], tmpl, tag, name), tag,
                         ReplaceAll(cntrNameFormat, name)), LAMBDA c :
    Then(startAndWait(c.w, c.val[1], race), LAMBDA d :
         IF containerIsAlive(backuperCntr.val)
         THEN Ret(ContainerStart(d.w, backuperCntr.val[1].id).w, "nil", <<>>)
         ELSE Ret(d.w, "nil", <<>>))))))

oneOffContainerFromTmpl(w, name, tmpl, tag, cntrNameFormat, race) ==
    Then(getContainerByLabelValue(Mark(w, E("oneOff", 0, name)),
                                  prepareLabels.backuperName, name, FALSE),
         LAMBDA backuperCntr :
    Then(IF backuperCntr.val # <<>>
         THEN ContainerStop(backuperCntr.w, backuperCntr.val[1].id)
         ELSE Ret(backuperCntr.w, "nil", <<>>), LAMBDA s :
    Then(prepareBackuperConfigFor(s.w, name, TRUE), LAMBDA p :
    Then(createContainer(Derive(p.w, IF tag = Config.RestoreTag THEN "Restore"
                                     ELSE "ForceBackup", p.val[1],
                                oneOffCfg(p.val[1], tmpl, tag, name).Labels),
                         oneOffCfg(p.val[1], tmpl, tag, name), tag,
                         ReplaceAll(cntrNameFormat, name)), LAMBDA c :
    Then(startAndWait(c.w, c.val[1], race), LAMBDA d :
         IF containerIsAlive(backuperCntr.val)
         THEN ContainerStart(d.w, backuperCntr.val[1].id)
         ELSE Ret(d.w, "nil", <<>>))))))

Restore(w, name, race) ==
    oneOffContainerFromTmpl(w, name, w.tmpls.Restore, Config.RestoreTag,
                            Config.RestoreNameFormat, race)

ForceBackup(w, name, race) ==
    oneOffContainerFromTmpl(w, name, w.tmpls.ForceBackup, Config.ForceTag,
                            Config.ForceNameFormat, race)

CreateBackuper(w, name) ==
    Then(getContainerByLabelValue(w, prepareLabels.backuperName, name, TRUE), LAMBDA b :
         IF b.val # <<>> THEN Ret(b.w, "exists", <<>>)
         ELSE Then(getContainerByLabelValue(b.w, prepareLabels.backupName, name, TRUE),
                   LAMBDA t :
                   IF t.val = <<>> THEN Ret(t.w, "notfound", <<>>)
                   ELSE createBackuper(t.w, name, {})))

RECURSIVE createAllLoop(_, _)
createAllLoop(w, backupCntrs) ==
    IF backupCntrs = <<>> THEN Ret(w, "nil", <<>>)
    ELSE Then(getContainerByLabelValue(w, prepareLabels.backuperName,
                                       Head(backupCntrs).labels.backupName, TRUE),
              LAMBDA b :
              IF b.val # <<>> THEN createAllLoop(b.w, Tail(backupCntrs))
              ELSE Then(createBackuper(b.w, Head(backupCntrs).labels.backupName, {}),
                        LAMBDA c : createAllLoop(c.w, Tail(backupCntrs))))

CreateAll(w) ==
    Then(listContainersWithLabel(w, prepareLabels.backupName, TRUE), LAMBDA t :
         createAllLoop(t.w, t.val))

\* the loop of RestoreAll and ForceBackupAll going on to the next target
\* after an error (lines 399-401 and 430-432) and returning the error at the end
oneOffAll_GoOn(w, toBackups, tmpl, tag, cntrNameFormat, race) ==
    LET RECURSIVE loop(_, _, _)
        loop(v, cs, err) ==
            IF cs = <<>> THEN Ret(v, err, <<>>)
            ELSE LET r == oneOffContainerFromTmpl(v, Head(cs).labels.backupName, tmpl,
                                                  tag, cntrNameFormat, race)
                 IN  loop(r.w, Tail(cs), IF err = "nil" THEN r.err ELSE err)
    IN  loop(w, toBackups, "nil")

\* for _, backupCntr := range toBackups { oneOffContainerFromTmpl(...) }
oneOffAll(w, toBackups, tmpl, tag, cntrNameFormat, race) ==
    LET RECURSIVE loop(_, _)
        loop(v, cs) ==
            IF cs = <<>> THEN Ret(v, "nil", <<>>)
            ELSE Then(oneOffContainerFromTmpl(v, Head(cs).labels.backupName, tmpl, tag,
                                              cntrNameFormat, race),
                      LAMBDA r : loop(r.w, Tail(cs)))
    IN  loop(w, toBackups)

RestoreAll(w, race) ==
    Then(listContainersWithLabel(w, prepareLabels.backupName, TRUE), LAMBDA t :
         oneOffAll(t.w, t.val, w.tmpls.Restore, Config.RestoreTag,
                   Config.RestoreNameFormat, race))

ForceBackupAll(w, includeStopped, race) ==
    Then(listContainersWithLabel(w, prepareLabels.backupName, includeStopped), LAMBDA t :
         oneOffAll(t.w, t.val, w.tmpls.ForceBackup, Config.ForceTag,
                   Config.ForceNameFormat, race))

StopBackuper(w, name) ==
    Then(getContainerByLabelValue(w, prepareLabels.backuperName, name, FALSE), LAMBDA c :
         IF c.val = <<>> THEN Ret(c.w, "notfound", <<>>)
         ELSE ContainerStop(c.w, c.val[1].id))

StopAll(w) ==
    LET RECURSIVE loop(_, _)
        loop(v, backupers) ==
            IF backupers = <<>> THEN Ret(v, "nil", <<>>)
            ELSE Then(ContainerStop(v, Head(backupers).id), LAMBDA r :
                      loop(r.w, Tail(backupers)))
    IN  Then(listContainersWithLabel(w, prepareLabels.backuperName, FALSE), LAMBDA b :
             loop(b.w, b.val))

RemoveBackuper(w, name) ==
    Then(getContainerByLabelValue(w, prepareLabels.backuperName, name, TRUE), LAMBDA c :
         IF c.val = <<>> THEN Ret(c.w, "notfound", <<>>)
         ELSE Then(ContainerStop(c.w, c.val[1].id), LAMBDA s :
                   ContainerRemove(s.w, c.val[1].id)))

RemoveAll(w) ==
    LET RECURSIVE loop(_, _)
        loop(v, backupers) ==
            IF backupers = <<>> THEN Ret(v, "nil", <<>>)
            ELSE Then(ContainerStop(v, Head(backupers).id), LAMBDA s :
                 Then(ContainerRemove(s.w, Head(backupers).id), LAMBDA r :
                      loop(r.w, Tail(backupers))))
    IN  Then(listContainersWithLabel(w, prepareLabels.backuperName, TRUE), LAMBDA b :
             loop(b.w, b.val))

StartBackuper(w, name) ==
    Then(getContainerByLabelValue(w, prepareLabels.backuperName, name, TRUE), LAMBDA c :
         IF c.val = <<>> THEN Ret(c.w, "notfound", <<>>)
         ELSE ContainerStart(c.w, c.val[1].id))

StartAll(w) ==
    LET RECURSIVE loop(_, _)
        loop(v, backupers) ==
            IF backupers = <<>> THEN Ret(v, "nil", <<>>)
            ELSE Then(ContainerStart(v, Head(backupers).id), LAMBDA r :
                      loop(r.w, Tail(backupers)))
    IN  Then(listContainersWithLabel(w, prepareLabels.backuperName, TRUE), LAMBDA b :
             loop(b.w, b.val))

\* for tag, tmpl := range map[string]*Template{...}: order is the order the
\* map iteration takes this time
BuildAll(w, order) ==
    LET tags == <<Config.BackupTag, Config.ForceTag, Config.RestoreTag>>
        tmpl == <<w.tmpls.Backuper, w.tmpls.ForceBackup, w.tmpls.Restore>>
        RECURSIVE loop(_, _)
        loop(v, is) ==
            IF is = <<>> THEN Ret(v, "nil", <<>>)
            ELSE LET cc == CreateConfig(tmpl[Head(is)], tags[Head(is)])
                 IN  IF cc.err # "nil" THEN Ret(v, cc.err, <<>>)
                     ELSE IF cc.buildInfo = <<>> THEN loop(v, Tail(is))
                     ELSE Then(buildImage(v, cc.buildInfo[1], cc.image, TRUE),
                               LAMBDA r : loop(r.w, Tail(is)))
    IN  loop(w, order)

\* every template with an image has the image of the backuper template pulled
PullAll(w) ==
    LET RECURSIVE loop(_, _)
        loop(v, ts) ==
            IF ts = <<>> THEN Ret(v, "nil", <<>>)
            ELSE IF Head(ts).Image = <<>> THEN loop(v, Tail(ts))
            ELSE Then(pullImage(v, w.tmpls.Backuper.Image, TRUE), LAMBDA r :
                      loop(r.w, Tail(ts)))
    IN  loop(w, <<w.tmpls.Backuper, w.tmpls.ForceBackup, w.tmpls.Restore>>)

\* ----------------------------------------------------------------- state
VARIABLES
    cntrs,      \* the containers of the engine
    images,     \* the image tags the engine has
    pc,         \* syncBackupers: "connect", "reconnect" (after an EOF),
                \* "loop" (in the select) or "done" (Run has returned)
    ret,        \* what Run returned, once pc = "done"
    eventChan,  \* events of the current subscription not yet received
    errChan,    \* the error the current subscription has for the loop
    cancelled,  \* ctx.Err() # nil
    last        \* the handler that ran last: its input and what it did

vars == <<cntrs, images, pc, ret, eventChan, errChan, cancelled, last>>

\* failed: an engine call of the handler returned an error; failAt: which one
\* (0: none, or a container_create the engine had no room for); stream: the
\* body of that call when it was an image pull or build that returned one;
\* tmpls: the templates of the manager when the handler returned
Op(kind, name, action, r) ==
    [kind |-> kind, name |-> name, action |-> action, err |-> r.err,
     log |-> r.w.log, pre |-> cntrs,
     failed |-> \/ r.w.failAt # 0 /\ r.w.n >= r.w.failAt
                \/ \E i \in DOMAIN r.w.log :
                      r.w.log[i].op = "container_create" /\ r.w.log[i].id = 0,
     failAt |-> IF r.w.failAt # 0 /\ r.w.n >= r.w.failAt THEN r.w.failAt ELSE 0,
     stream |-> IF r.w.failAt # 0 /\ r.w.n >= r.w.failAt THEN r.w.stream ELSE <<>>,
     tmpls |-> r.w.tmpls]

NoOp ==
    [kind |-> "none", name |-> None, action |-> None, err |-> "nil",
     log |-> <<>>, pre |-> {}, failed |-> FALSE, failAt |-> 0, stream |-> <<>>,
     tmpls |-> UserTemplates]

Init ==
    /\ cntrs = {}
    /\ images = {}
    /\ pc = "connect"
    /\ ret = None
    /\ eventChan = <<>>
    /\ errChan = "none"
    /\ cancelled = FALSE
    /\ last = NoOp

Targets == {c \in cntrs : c.labels.backupName # None}

Backupers == {c \in cntrs : c.labels.backuperName # None}

\* the engine delivers an event of a target to the open subscription
Emit(action, name) ==
    IF pc = "loop"
    THEN /\ Len(eventChan) < MaxEvents
         /\ eventChan' = Append(eventChan, [action |-> action, name |-> name])
    ELSE UNCHANGED eventChan

Daemon == <<pc, ret, errChan, cancelled>>

\* the handler that ran last has returned to its caller (the select loop of
\* syncBackupers, or the command's process) and its record is dropped
Idle == last.kind = "none"

Return ==
    /\ ~Idle
    /\ last' = NoOp
    /\ UNCHANGED <<cntrs, images, eventChan, Daemon>>

\* ------------------------------------------------- the engine's other users
TargetCreate(name, tl) ==
    /\ Idle
    /\ Cardinality(Targets) < MaxTargets
    /\ \E i \in 1..MaxId :
          /\ \A c \in cntrs : c.id # i
          /\ \A j \in 1..MaxId : (\A c \in cntrs : c.id # j) => i <= j
          /\ cntrs' = cntrs \cup
                {[id |-> i, state |-> "created", cname |-> <<"target", name>>,
                  labels |-> [NoLabels EXCEPT !.backupName = name],
                  tl |-> tl, autoRemove |-> FALSE]}
    /\ Emit("create", name)
    /\ UNCHANGED <<images, Daemon, last>>

TargetStart(c) ==
    /\ Idle
    /\ c \in Targets /\ c.state \in {"created", "exited"}
    /\ cntrs' = SetState(cntrs, c.id, "running")
    /\ Emit("start", c.labels.backupName)
    /\ UNCHANGED <<images, Daemon, last>>

TargetDie(c) ==
    /\ Idle
    /\ c \in Targets /\ c.state \in Live
    /\ cntrs' = SetState(cntrs, c.id, "exited")
    /\ Emit("die", c.labels.backupName)
    /\ UNCHANGED <<images, Daemon, last>>

TargetDestroy(c) ==
    /\ Idle
    /\ c \in Targets /\ c.state \in {"created", "exited"}
    /\ cntrs' = cntrs \ {c}
    /\ Emit("destroy", c.labels.backupName)
    /\ UNCHANGED <<images, Daemon, last>>

\* a companion's process exits or is stopped by its operator
BackuperExit(c) ==
    /\ Idle
    /\ c \in Backupers /\ c.state \in Live
    /\ cntrs' = SetState(cntrs, c.id, "exited")
    /\ UNCHANGED <<images, eventChan, Daemon, last>>

\* the event stream ends (io.EOF) or breaks
StreamError(e) ==
    /\ Idle
    /\ pc = "loop" /\ errChan = "none"
    /\ errChan' = e
    /\ UNCHANGED <<cntrs, images, eventChan, pc, ret, cancelled, last>>

\* SIGINT/SIGTERM: the context is cancelled, the stream reports ctx.Err()
Cancel ==
    /\ Idle
    /\ ~cancelled
    /\ cancelled' = TRUE
    /\ errChan' = IF pc = "loop" /\ errChan = "none" THEN "ctx" ELSE errChan
    /\ UNCHANGED <<cntrs, images, eventChan, pc, ret, last>>

\* ------------------------------------------------------------ syncBackupers
\* with a cancelled context the first engine call of a handler fails
ctxErr == cancelled

FailAts == IF ctxErr THEN {1} ELSE 0..MaxFail

Apply(r) ==
    /\ cntrs' = r.w.cntrs
    /\ images' = r.w.images

\* Run has returned: its channels are gone
Leave(err) ==
    /\ pc' = "done"
    /\ ret' = err
    /\ eventChan' = <<>>
    /\ errChan' = "none"

\* a call of the loop has returned r: on an error syncBackupers returns it,
\* otherwise it is in its select with the events evs left to receive
Returned(kind, name, action, r, evs, errs) ==
    /\ Apply(r)
    /\ last' = Op(kind, name, action, r)
    /\ IF r.err = "nil"
       THEN /\ pc' = "loop"
            /\ ret' = ret
            /\ eventChan' = evs
            /\ errChan' = errs
       ELSE Leave(r.err)
    /\ UNCHANGED cancelled

\* Events(ctx, opts) and initBackupers
Connect(failAt, rev) ==
    /\ Idle
    /\ pc \in {"connect", "reconnect"}
    /\ Returned("init", None, pc,
                initBackupers(Mark(World(cntrs, images, failAt, rev), E("events", 0, None))),
                <<>>, IF cancelled THEN "ctx" ELSE "none")

\* case event := <-eventChan
HandleEvent(failAt, rev) ==
    /\ Idle
    /\ pc = "loop" /\ eventChan # <<>>
    /\ Returned("event", Head(eventChan).name, Head(eventChan).action,
                handleDockerEvent(World(cntrs, images, failAt, rev), Head(eventChan)),
                Tail(eventChan), errChan)

\* case err := <-errChan, with io.EOF not breaking out of the select
RecvErr_StayOnEOF ==
    /\ Idle
    /\ pc = "loop" /\ errChan # "none"
    /\ IF ctxErr THEN Leave("nil")
       ELSE IF errChan = "EOF"
            THEN /\ pc' = "loop"
                 /\ ret' = ret
                 /\ eventChan' = eventChan
                 /\ errChan' = "none"
       ELSE Leave("listen")
    /\ last' = [NoOp EXCEPT !.kind = "recv", !.action = errChan]
    /\ UNCHANGED <<cntrs, images, cancelled>>

\* case err := <-errChan
RecvErr ==
    /\ Idle
    /\ pc = "loop" /\ errChan # "none"
    /\ IF ctxErr THEN Leave("nil")
       ELSE IF errChan = "EOF"
            THEN /\ pc' = "reconnect"
                 /\ ret' = ret
                 /\ eventChan' = <<>>
                 /\ errChan' = "none"
       ELSE Leave("listen")
    /\ last' = [NoOp EXCEPT !.kind = "recv", !.action = errChan]
    /\ UNCHANGED <<cntrs, images, cancelled>>

\* case <-ctx.Done()
CtxDone ==
    /\ Idle
    /\ pc = "loop" /\ cancelled
    /\ Leave("nil")
    /\ last' = [NoOp EXCEPT !.kind = "ctxdone"]
    /\ UNCHANGED <<cntrs, images, cancelled>>

\* -------------------------------------------------- commands (other process)
Cli(kind, name, r) ==
    /\ Idle
    /\ Apply(r)
    /\ last' = Op(kind, name, None, r)
    /\ UNCHANGED <<eventChan, Daemon>>

CliCreate(name, failAt, rev) ==
    Cli("create", name, CreateBackuper(World(cntrs, images, failAt, rev), name))

CliCreateAll(failAt, rev) ==
    Cli("create-all", None, CreateAll(World(cntrs, images, failAt, rev)))

CliRestore(name, failAt, rev, race) ==
    Cli("restore", name, Restore(World(cntrs, images, failAt, rev), name, race))

CliForceBackup(name, failAt, rev, race) ==
    Cli("force-backup", name, ForceBackup(World(cntrs, images, failAt, rev), name, race))

\* the cobra commands stop, start and remove with their NAME argument
CliCompanion(cmd, name, failAt, rev) ==
    Cli(cmd, name,
        CASE cmd = "stop" -> StopBackuper(World(cntrs, images, failAt, rev), name)
          [] cmd = "start" -> StartBackuper(World(cntrs, images, failAt, rev), name)
          [] cmd = "remove" -> RemoveBackuper(World(cntrs, images, failAt, rev), name))

\* the cobra commands stop-all, start-all and remove-all
CliCompanions(cmd, failAt, rev) ==
    Cli(cmd, None,
        CASE cmd = "stop-all" -> StopAll(World(cntrs, images, failAt, rev))
          [] cmd = "start-all" -> StartAll(World(cntrs, images, failAt, rev))
          [] cmd = "remove-all" -> RemoveAll(World(cntrs, images, failAt, rev)))

\* restore-all, and force-backup-all with its --include-stopped flag
CliOneOffAll(cmd, includeStopped, failAt, rev, race) ==
    Cli(cmd, None,
        IF cmd = "restore-all" THEN RestoreAll(World(cntrs, images, failAt, rev), race)
        ELSE ForceBackupAll(World(cntrs, images, failAt, rev), includeStopped, race))

\* the lines of a pull or build body that does not go well
Streams == {<<"status", "error">>, <<"garbage">>, <<"aux", "badaux">>}

\* pull-all and build-all, in a process that has loaded the templates t
CliImages(cmd, t, order, failAt, stream) ==
    LET w == [World(cntrs, images, failAt, FALSE) EXCEPT !.tmpls = t, !.stream = stream]
    IN  Cli(cmd, None, IF cmd = "pull-all" THEN PullAll(w) ELSE BuildAll(w, order))

\* create, restore, force-backup and the reconciliation of the daemon in a
\* process that has loaded the templates t
WithTemplates(cmd, name, t, failAt, stream, race) ==
    LET w == [World(cntrs, images, failAt, FALSE) EXCEPT !.tmpls = t, !.stream = stream]
    IN  IF cmd = "init"
        THEN /\ Idle
             /\ pc = "connect"
             /\ Returned("init", None, pc, initBackupers(Mark(w, E("events", 0, None))),
                         <<>>, "none")
        ELSE Cli(cmd, name, IF cmd = "create" THEN CreateBackuper(w, name)
                            ELSE IF cmd = "restore" THEN Restore(w, name, race)
                            ELSE ForceBackup(w, name, race))

\* ------------------------------------------------------------ specifications
EnvNext ==
    \/ \E name \in Names, tl \in TargetLabelChoices : TargetCreate(name, tl)
    \/ \E c \in cntrs : TargetStart(c)
    \/ \E c \in cntrs : TargetDie(c)
    \/ \E c \in cntrs : TargetDestroy(c)
    \/ \E c \in cntrs : BackuperExit(c)
    \/ Return

SyncNext ==
    \/ \E e \in {"EOF", "other"} : StreamError(e)
    \/ \E failAt \in FailAts, rev \in BOOLEAN : Connect(failAt, rev)
    \/ \E failAt \in FailAts, rev \in BOOLEAN : HandleEvent(failAt, rev)
    \/ RecvErr
    \/ \E name \in Names, failAt \in 0..MaxFail, rev \in BOOLEAN : CliCreate(name, failAt, rev)
    \/ \E failAt \in 0..MaxFail, rev \in BOOLEAN : CliCreateAll(failAt, rev)

OneOffNext ==
    \/ \E name \in Names, failAt \in 0..MaxFail, rev \in BOOLEAN, race \in Races :
          CliRestore(name, failAt, rev, race)
    \/ \E name \in Names, failAt \in 0..MaxFail, rev \in BOOLEAN, race \in Races :
          CliForceBackup(name, failAt, rev, race)

Next ==
    \/ EnvNext
    \/ SyncNext
    \/ OneOffNext
    \/ Cancel
    \/ CtxDone

\* the daemon, the commands and the engine's other users
Spec == Init /\ [][Next]_vars

\* the daemon with a live context, and the create commands
SpecSync == Init /\ [][EnvNext \/ SyncNext]_vars

\* the daemon and the create commands, with cancellation
SpecLoop == Init /\ [][EnvNext \/ SyncNext \/ Cancel \/ CtxDone]_vars

\* the one-off commands, on companions the create command made
OneOffSpecNext ==
    \/ EnvNext
    \/ \E name \in Names, failAt \in 0..MaxFail, rev \in BOOLEAN : CliCreate(name, failAt, rev)
    \/ OneOffNext

SpecOneOff == Init /\ [][OneOffSpecNext]_vars

\* the one-off commands alone: what a one-off run does depends on the target's
\* labels and on the companion, never on the state of the target (its lookups
\* list stopped containers too), so targets are created and destroyed only
RunnerNext ==
    \/ \E name \in Names, tl \in TargetLabelChoices : TargetCreate(name, tl)
    \/ \E c \in cntrs : TargetDestroy(c)
    \/ \E c \in cntrs : BackuperExit(c)
    \/ Return
    \/ \E name \in Names, failAt \in 0..MaxFail, rev \in BOOLEAN : CliCreate(name, failAt, rev)
    \/ OneOffNext

SpecRunner == Init /\ [][RunnerNext]_vars

\* the one-off commands next to the daemon: reconciliations and events find
\* the containers the one-off runs have left in the engine
MixedNext ==
    \/ RunnerNext
    \/ \E c \in cntrs : TargetStart(c)
    \/ \E failAt \in FailAts, rev \in BOOLEAN : Connect(failAt, rev)
    \/ \E failAt \in FailAts, rev \in BOOLEAN : HandleEvent(failAt, rev)

SpecMixed == Init /\ [][MixedNext]_vars

\* the single-name commands, on targets and companions that come and go
ManageNext ==
    \/ RunnerNext
    \/ \E cmd \in {"stop", "start", "remove"}, name \in Names,
          failAt \in 0..MaxFail, rev \in BOOLEAN : CliCompanion(cmd, name, failAt, rev)

SpecManage == Init /\ [][ManageNext]_vars

\* the targets and companions of an engine that serves two backup names:
\* any of target a, target b, companion a, companion b, running or exited
Fleet(members, state) ==
    LET seq == SetToSeq(members, FALSE)
        tl == CHOOSE x \in TargetLabelChoices : x.path = 1
        target(n) == [NoLabels EXCEPT !.backupName = n]
    IN  {IF seq[i][1] = "target"
         THEN [id |-> i, state |-> state[seq[i]], cname |-> <<"target", seq[i][2]>>,
               labels |-> target(seq[i][2]), tl |-> tl, autoRemove |-> FALSE]
         ELSE [id |-> i, state |-> state[seq[i]],
               cname |-> ReplaceAll(Config.BackupNameFormat, seq[i][2]),
               labels |-> WithHash(Overlay(UserTemplates.Backuper,
                                           backuperBaseCfg([tl |-> tl], seq[i][2],
                                                           FALSE, FALSE, Config))).Labels,
               tl |-> NoTargetLabels, autoRemove |-> FALSE]
         : i \in DOMAIN seq}

InitAll ==
    /\ \E members \in SUBSET ({"target", "companion"} \X {"a", "b"}) :
          /\ Cardinality(members) <= MaxId
          /\ \E state \in [members -> {"running", "exited"}] :
                cntrs = Fleet(members, state)
    /\ images = {}
    /\ pc = "connect"
    /\ ret = None
    /\ eventChan = <<>>
    /\ errChan = "none"
    /\ cancelled = FALSE
    /\ last = NoOp

\* one run of a command that works on every target or companion, or on every
\* template, in an engine InitAll has drawn
AllNext ==
    \/ \E cmd \in {"stop-all", "start-all", "remove-all"},
          failAt \in 0..MaxFail, rev \in BOOLEAN : CliCompanions(cmd, failAt, rev)
    \/ \E failAt \in 0..MaxFail, rev \in BOOLEAN : CliCreateAll(failAt, rev)
    \/ \E cmd \in {"restore-all", "force-backup-all"}, includeStopped \in BOOLEAN,
          failAt \in 0..MaxFail, rev \in BOOLEAN, race \in Races :
          CliOneOffAll(cmd, includeStopped, failAt, rev, race)
    \/ \E cmd \in {"pull-all", "build-all"}, t \in {UserTemplates, BuildTemplates},
          order \in {o \in [1..3 -> 1..3] : Range(o) = 1..3},
          failAt \in 0..MaxFail, stream \in Streams \cup {<<>>} :
          CliImages(cmd, t, order, failAt, stream)

SpecAll == InitAll /\ [][AllNext]_vars

\* the repo tags the image list of the engine may hold
ImageTags ==
    {<<"restore", "latest">>, <<"reg:5000/restore", "latest">>,
     <<Config.BackupTag, "latest">>, <<"base", "1">>, <<"tools", "latest">>}

\* an engine with any images and with running targets and companions
InitImages ==
    /\ \E members \in SUBSET ({"target", "companion"} \X {"a", "b"}) :
          /\ Cardinality(members) <= MaxId
          /\ cntrs = Fleet(members, [m \in members |-> "running"])
    /\ images \in SUBSET ImageTags
    /\ pc = "connect"
    /\ ret = None
    /\ eventChan = <<>>
    /\ errChan = "none"
    /\ cancelled = FALSE
    /\ last = NoOp

\* one run of a handler or command that procures images: the backuper is
\* built, the restore image is pulled (from the hub, or from a registry with
\* a port)
ImagesNext ==
    \/ \E cmd \in {"init", "create"}, name \in Names, failAt \in 0..MaxFail,
          stream \in Streams \cup {<<>>} :
          WithTemplates(cmd, name, BuildTemplates, failAt, stream, "sub_start_die")
    \/ \E t \in {UserTemplates, BuildTemplates}, name \in Names, failAt \in 0..MaxFail,
          stream \in Streams \cup {<<>>}, race \in Races :
          WithTemplates("restore", name, t, failAt, stream, race)
    \/ \E order \in {o \in [1..3 -> 1..3] : Range(o) = 1..3},
          failAt \in 0..MaxFail, stream \in Streams \cup {<<>>} :
          CliImages("build-all", BuildTemplates, order, failAt, stream)

SpecImages == InitImages /\ [][ImagesNext]_vars

\* backup.name label values outside Names: the empty value, and one with a space
OddNames == {"", "x y"}

\* the daemon with a live context, with targets of any name
NamesNext ==
    \/ EnvNext
    \/ \E name \in OddNames, tl \in TargetLabelChoices : TargetCreate(name, tl)
    \/ \E e \in {"EOF", "other"} : StreamError(e)
    \/ \E failAt \in FailAts, rev \in BOOLEAN : Connect(failAt, rev)
    \/ \E failAt \in FailAts, rev \in BOOLEAN : HandleEvent(failAt, rev)
    \/ RecvErr

SpecNames == Init /\ [][NamesNext]_vars

\* how many containers may carry the same backup.name or backuper.name value
MaxSame == 2

\* an operator error or an outside actor: one more container with the labels
\* and the state of target or companion c
Copy(c) ==
    /\ Idle
    /\ c \in Targets \cup Backupers
    /\ Cardinality({x \in cntrs : /\ x.labels.backupName = c.labels.backupName
                                  /\ x.labels.backuperName = c.labels.backuperName})
          < MaxSame
    /\ \E i \in 1..MaxId :
          /\ \A x \in cntrs : x.id # i
          /\ \A j \in 1..MaxId : (\A x \in cntrs : x.id # j) => i <= j
          /\ cntrs' = cntrs \cup {[c EXCEPT !.id = i]}
    /\ IF c \in Targets THEN Emit("create", c.labels.backupName)
       ELSE UNCHANGED eventChan
    /\ UNCHANGED <<images, Daemon, last>>

\* the daemon with a live context, in an engine where names are not unique
SameNext ==
    \/ EnvNext
    \/ \E c \in cntrs : Copy(c)
    \/ \E e \in {"EOF", "other"} : StreamError(e)
    \/ \E failAt \in FailAts, rev \in BOOLEAN : Connect(failAt, rev)
    \/ \E failAt \in FailAts, rev \in BOOLEAN : HandleEvent(failAt, rev)
    \/ RecvErr

SpecSame == Init /\ [][SameNext]_vars

\* ------------------------------------------------------- reading the record
Mutating == {"container_stop", "container_remove", "container_create", "container_start"}

Procs == {"dropBackuper", "createBackuper", "updateBackuper"}

BackupersOf(S, name) == {c \in S : c.labels.backuperName = name}

TargetsOf(S, name) == {c \in S : c.labels.backupName = name}

\* the hash createBackuper and updateBackuper compute for target t
ExpectedHash(t) ==
    Hash(Overlay(UserTemplates.Backuper,
                 backuperBaseCfg(t, t.labels.backupName, FALSE, FALSE, Config)))

\* the first procedure entry after entry i of the log (Len + 1: none)
NextProc(log, i) ==
    LET js == {j \in (i + 1)..Len(log) : log[j].op \in Procs}
    IN  IF js = {} THEN Len(log) + 1 ELSE CHOOSE j \in js : \A k \in js : j <= k

Reconciled == last.kind = "init" /\ last.err = "nil"

\* ------------------------------------------------------------------- claims
\* C1: after a snapshot reconciliation (initBackupers) has returned without
\* error, every container labeled backuper.name=N, running or stopped, has a
\* target labeled backup.name=N.
C1_NoDanglingCompanion ==
    Reconciled =>
        \A c \in Backupers : TargetsOf(cntrs, c.labels.backuperName) # {}

\* C2: after any sequence of reconciliations, handled events and create /
\* create-all commands, each run to completion, at most one container labeled
\* backuper.name=N exists for every name N (stopped ones counted).
C2_AtMostOneCompanion ==
    \A name \in Names : Cardinality(BackupersOf(cntrs, name)) <= 1

\* a create request (event or command) met a companion that already existed
C2_Witness ==
    /\ last.kind \in {"event", "create", "create-all"}
    /\ \E i \in DOMAIN last.log : last.log[i].op = "createBackuper"
    /\ \E name \in Names : /\ BackupersOf(last.pre, name) # {}
                            /\ Cardinality(BackupersOf(cntrs, name)) = 1

\* C3: after a snapshot reconciliation has returned without error, the
\* consistencyhash label of every running companion is the hash computed from
\* the labels of a target of its name.
C3_HashConsistent ==
    Reconciled =>
        \A c \in Backupers : c.state \in Live =>
            \E t \in TargetsOf(cntrs, c.labels.backuperName) :
                c.labels.hash = ExpectedHash(t)


\* C4: for every one-off run (restore, force-backup) that stopped a
\* companion, by the time the run returns, on every return path,
\* container_start has been issued on that companion if and only if the
\* companion was running or restarting when it was looked up.
C4_RestartIffWasRunning ==
    (last.kind \in {"restore", "force-backup"} /\ last.err # "hang") =>
        \A i \in DOMAIN last.log :
            (last.log[i].op = "container_stop" /\ i < Len(last.log)) =>
                LET id == last.log[i].id
                    wasRunning == \E c \in last.pre : c.id = id /\ c.state \in Live
                    started == \E j \in (i + 1)..Len(last.log) :
                                  /\ last.log[j].op = "container_start"
                                  /\ last.log[j].id = id
                IN  started <=> wasRunning

\* C5: when dropBackuper(name) returns nil, no container labeled
\* backuper.name=name exists afterwards, running or stopped before the call;
\* when none existed, it returns nil and issues no stop and no remove.
C5_DropLeavesNoCompanion ==
    (last.kind = "event" /\ last.action = "destroy") =>
        /\ last.err = "nil" => BackupersOf(cntrs, last.name) = {}
        /\ BackupersOf(last.pre, last.name) = {} =>
              /\ ~last.failed => last.err = "nil"
              /\ \A i \in DOMAIN last.log :
                    last.log[i].op \notin {"container_stop", "container_remove"}

\* entry i of the record is a call of updateBackuper for a pair whose
\* recomputed hash equals (eq) or differs from (~eq) the stored label
UpdateAt(i, eq) ==
    /\ last.log[i].op = "updateBackuper"
    /\ \E t \in TargetsOf(last.pre, last.log[i].name) :
          /\ TargetsOf(last.pre, last.log[i].name) = {t}
          /\ (last.log[i].labels.hash = ExpectedHash(t)) <=> eq

\* C6: updateBackuper for a target/companion pair whose recomputed hash equals
\* the stored consistencyhash issues no container_stop, container_remove,
\* container_create or container_start (and calls neither dropBackuper nor
\* createBackuper), also when the companion is stopped.
C6_EqualHashNoop ==
    \A i \in DOMAIN last.log :
        UpdateAt(i, TRUE) =>
            LET n == NextProc(last.log, i)
            IN  /\ \A j \in (i + 1)..(n - 1) : last.log[j].op \notin Mutating
                /\ n <= Len(last.log) => last.log[n].op # "dropBackuper"

\* updateBackuper ran on an equal hash for a companion that was stopped
C6_Witness ==
    \E i \in DOMAIN last.log :
        /\ UpdateAt(i, TRUE)
        /\ \E c \in last.pre : c.id = last.log[i].id /\ c.state = "exited"

\* C7: when the hash recomputed for a target differs from the hash stored on
\* its companion, the reconciler (no engine call failing) issues
\* container_stop, then container_remove on the old companion, and after both
\* container_create and container_start of a new one carrying the new hash.
C7_DriftRecreates ==
    ~last.failed =>
        \A i \in DOMAIN last.log :
            UpdateAt(i, FALSE) =>
                \E a, b, c, d \in DOMAIN last.log :
                    /\ i < a /\ a < b /\ b < c /\ c < d
                    /\ last.log[a].op = "container_stop"
                    /\ last.log[a].id = last.log[i].id
                    /\ last.log[b].op = "container_remove"
                    /\ last.log[b].id = last.log[i].id
                    /\ last.log[c].op = "container_create"
                    /\ \A t \in TargetsOf(last.pre, last.log[i].name) :
                          last.log[c].labels.hash = ExpectedHash(t)
                    /\ last.log[d].op = "container_start"
                    /\ last.log[d].id = last.log[c].id

\* the running targets the reconciliation found without a companion
Uncovered ==
    {t \in last.pre :
        /\ t.labels.backupName # None
        /\ t.state \in Live
        /\ MatchString(t.labels.backupName)
        /\ BackupersOf(last.pre, t.labels.backupName) = {}}

CreatesFor(name) ==
    {i \in DOMAIN last.log : /\ last.log[i].op = "container_create"
                             /\ last.log[i].labels.backuperName = name}

\* C8: in a snapshot reconciliation that returns without error, for every
\* running target with a valid name N and no companion exactly one
\* container_create is issued, named BackupNameFormat with {name} replaced by
\* N, labeled backuper.name=N and with a consistencyhash, and container_start
\* of the container just created follows it.
C8_InitCreatesCompanion ==
    Reconciled =>
        \A t \in Uncovered :
            LET name == t.labels.backupName
            IN  /\ Cardinality(CreatesFor(name)) = 1
                /\ \A i \in CreatesFor(name) :
                      /\ last.log[i].cname = ReplaceAll(Config.BackupNameFormat, name)
                      /\ last.log[i].labels.hash = ExpectedHash(t)
                      /\ last.log[i].labels.hash # NoHash
                      /\ i < Len(last.log)
                      /\ last.log[i + 1].op = "container_start"
                      /\ last.log[i + 1].id = last.log[i].id

\* a reconciliation met a running target without companion and left it one
C8_Witness ==
    /\ Reconciled
    /\ Uncovered # {}
    /\ \A t \in Uncovered :
          \E c \in BackupersOf(cntrs, t.labels.backupName) : c.state = "running"

\* what the event loop did with the event it received: proc is the procedure
\* it entered with the event's backup.name, None for no engine call at all
Dispatched(proc) ==
    IF proc = None THEN last.log = <<>>
    ELSE /\ last.log # <<>>
         /\ last.log[1].op = proc
         /\ last.log[1].name = last.name

C10_ResubscribeOnEOF ==
    [][/\ (pc = "loop" /\ errChan = "EOF" /\ ~cancelled /\ last'.kind = "recv")
            => pc' = "reconnect"
       /\ (pc = "reconnect" /\ last'.kind \in {"init", "event", "recv", "ctxdone"})
            => /\ last'.kind = "init"
               /\ last'.log[1].op = "events"
               /\ Len(last'.log) >= 2 /\ last'.log[2].op = "container_list"
       /\ pc = "reconnect" => eventChan = <<>> /\ eventChan' = <<>>]_vars

\* the loop has resubscribed and reconciled again after an EOF, and is back
\* in its select
C10_Witness ==
    last.kind = "init" /\ last.action = "reconnect" /\ pc = "loop"

\* C11: an engine error other than EOF inside the event loop, the context
\* live - received on the error channel, raised while handling an event or
\* raised during the reconciliation, updateBackuper included - makes Run
\* return an error.
C11_EngineErrorEndsRun ==
    ~cancelled =>
        /\ (last.kind \in {"init", "event"} /\ last.failed) =>
              pc = "done" /\ ret \notin {None, "nil"}
        /\ (last.kind = "recv" /\ last.action = "other") =>
              pc = "done" /\ ret \notin {None, "nil"}

\* C12: once the context is cancelled Run returns nil, whether the loop was
\* in its select, handling an event or running a reconciliation.
C12_CancelReturnsNil ==
    (cancelled /\ pc = "done" /\ last.kind \in {"init", "event", "recv", "ctxdone"}) =>
        ret = "nil"

\* ------------------------------------------------------------ one-off runs
OneOffRun == last.kind \in {"restore", "force-backup"}

\* the label a one-off of this kind is tagged with
TagOf(kind) == IF kind = "restore" THEN Config.RestoreTag ELSE Config.ForceTag

\* entry e of a record is an engine call (the rest are procedure entries and
\* the die of a one-off)
IsCall(e) ==
    \/ e.op \in {"container_list", "container_create", "container_start",
                 "container_stop", "container_remove",
                 "image_list", "image_pull", "image_build"}
    \/ e.op = "events" /\ e.id # 0

\* the number of the engine call that entry i of the record is
CallNo(log, i) == Cardinality({k \in 1..i : IsCall(log[k])})

\* the ids of the one-off containers a record creates
CreatedIn(log) == {log[i].id : i \in {k \in DOMAIN log : log[k].op = "container_create"}}

\* entry j of the record is the start of container id
StartOf(j, id) == last.log[j].op = "container_start" /\ last.log[j].id = id

\* before entry j: container_stop of companion c, container_create and
\* container_start of a one-off and the die event of that one-off, in order
StoppedRanDied(c, j) ==
    \E a \in 1..(j - 1) :
        /\ last.log[a].op = "container_stop" /\ last.log[a].id = c.id
        /\ \E b \in (a + 1)..(j - 1) :
              /\ last.log[b].op = "container_create"
              /\ \E s \in (b + 1)..(j - 1) :
                    /\ StartOf(s, last.log[b].id)
                    /\ \E d \in (s + 1)..(j - 1) :
                          last.log[d].op = "die" /\ last.log[d].id = last.log[b].id

\* C13: in a one-off run for a name whose companion is running the calls come
\* in the order container_stop of the companion, container_create of the
\* one-off, container_start of the one-off, die event of the one-off,
\* container_start of the companion: the companion is never started before the
\* die event was received, and a run that returns nil has made all of them.
C13_OneOffOrder ==
    OneOffRun =>
        \A c \in BackupersOf(last.pre, last.name) :
            /\ \A j \in DOMAIN last.log : StartOf(j, c.id) => StoppedRanDied(c, j)
            /\ (c.state \in Live /\ last.err = "nil") =>
                  StartOf(Len(last.log), c.id)

\* a one-off run for a running companion has returned nil
C13_Witness ==
    /\ OneOffRun /\ last.err = "nil"
    /\ \E c \in BackupersOf(last.pre, last.name) :
          c.state \in Live /\ StartOf(Len(last.log), c.id)

\* C14: the subscription to the die events of the one-off is made before
\* container_start of the one-off is issued, whatever the interleaving of
\* waitForStop with the starting task, so the one-off cannot die before the
\* subscription exists.
C14_SubscribedBeforeStart ==
    OneOffRun =>
        \A j \in DOMAIN last.log :
            (last.log[j].id \in CreatedIn(last.log)
             /\ last.log[j].op \in {"container_start", "die"}) =>
                \E e \in 1..(j - 1) :
                    last.log[e].op = "events" /\ last.log[e].id = last.log[j].id

\* C15: when the companion of the name is not live (stopped or absent) at the
\* start of a one-off run, the run issues no container_stop and no
\* container_start on any companion, and still creates and starts the one-off.
C15_NoLiveCompanion ==
    (OneOffRun /\ \A c \in BackupersOf(last.pre, last.name) : c.state \notin Live) =>
        /\ \A i \in DOMAIN last.log :
              last.log[i].op \in {"container_stop", "container_start"} =>
                  \A c \in last.pre : c.labels.backuperName # None => last.log[i].id # c.id
        /\ (~last.failed /\ Cardinality(TargetsOf(last.pre, last.name)) = 1) =>
              \E i \in DOMAIN last.log :
                  /\ last.log[i].op = "container_create"
                  /\ Label(last.log[i], TagOf(last.kind)) = last.name
                  /\ \E j \in (i + 1)..Len(last.log) : StartOf(j, last.log[i].id)

\* a one-off ran to its end for a name whose companion was stopped
C15_Witness ==
    /\ OneOffRun /\ last.err = "nil"
    /\ \E c \in BackupersOf(last.pre, last.name) : c.state = "exited"
    /\ CreatedIn(last.log) # {}

\* entry j of the record is the restart of companion c, and the call failed
RestartFailed(c, j) ==
    /\ StartOf(j, c.id)
    /\ last.failed /\ last.failAt = CallNo(last.log, j)

\* C16: when container_start of the companion fails after the one-off has
\* died, the run returns that failure and issues no further container_create
\* or container_start.
C16_RestartFailureReturned ==
    OneOffRun =>
        \A c \in BackupersOf(last.pre, last.name) :
            \A j \in DOMAIN last.log :
                RestartFailed(c, j) =>
                    /\ last.err = "engine"
                    /\ \A k \in (j + 1)..Len(last.log) :
                          last.log[k].op \notin {"container_create", "container_start"}

\* the restart of the companion failed after the one-off had died
C16_Witness ==
    /\ OneOffRun
    /\ \E c \in BackupersOf(last.pre, last.name) :
          \E j \in DOMAIN last.log : RestartFailed(c, j) /\ StoppedRanDied(c, j)

\* the one-off containers among S: those tagged restore or forcebackup
OneOffs(S) == {c \in S : c.labels.restore # None \/ c.labels.forceBackup # None}

\* C17: the container a one-off run creates carries the label tag=name and
\* not the label backuper.name, so no companion lookup, reconciliation or
\* dropBackuper ever stops or removes a one-off container.
C17_OneOffNeverSelected ==
    /\ OneOffRun =>
          \A i \in DOMAIN last.log :
              last.log[i].op = "container_create" =>
                  /\ Label(last.log[i], TagOf(last.kind)) = last.name
                  /\ last.log[i].labels.backuperName = None
    /\ \A c \in OneOffs(cntrs) : c.labels.backuperName = None
    /\ \A i \in DOMAIN last.log :
          last.log[i].op \in {"container_stop", "container_remove"} =>
              /\ \A c \in OneOffs(last.pre) : last.log[i].id # c.id
              /\ OneOffRun => last.log[i].id \notin CreatedIn(last.log)

\* the daemon has removed a companion while the engine held a one-off
\* container, and the one-off is still there
C17_Witness ==
    /\ last.kind \in {"init", "event"}
    /\ OneOffs(last.pre) # {} /\ OneOffs(cntrs) = OneOffs(last.pre)
    /\ \E i \in DOMAIN last.log : last.log[i].op = "container_remove"

\* a name of one character or more, each a letter, a digit or one of . _ -
NonEmptyAlphanumeric(name) == Chars(name) # <<>> /\ MatchString(name)

\* C18: createBackuper with a name that does not match [A-Za-z0-9._-]+, the
\* empty string included, returns nil and issues no engine call (no
\* container_create, container_start, container_stop or container_remove);
\* the event loop keeps running.
C18_InvalidNameIgnored ==
    \A i \in DOMAIN last.log :
        (last.log[i].op = "createBackuper" /\ ~NonEmptyAlphanumeric(last.log[i].name)) =>
            /\ \A j \in (i + 1)..(NextProc(last.log, i) - 1) : ~IsCall(last.log[j])
            /\ last.kind = "event" => last.err = "nil" /\ pc = "loop"

\* the loop has handled a create event for a name that had companion c and
\* one target, the stored hash of c up to date
CreateOnCurrent(c) ==
    /\ last.kind = "event" /\ last.action = "create"
    /\ c \in BackupersOf(last.pre, last.name)
    /\ \E t \in TargetsOf(last.pre, last.name) :
          /\ TargetsOf(last.pre, last.name) = {t}
          /\ c.labels.hash = ExpectedHash(t)

\* C19: createBackuper(N) called while a companion of N exists, running or
\* stopped, with an up-to-date hash issues no container_create: it goes to
\* updateBackuper for that companion and has its effect (none, the hashes
\* being equal).
C19_CreateOnExisting ==
    \A c \in last.pre :
        CreateOnCurrent(c) =>
            /\ \A i \in DOMAIN last.log : last.log[i].op \notin Mutating
            /\ cntrs = last.pre
            /\ ~last.failed =>
                  /\ last.err = "nil"
                  /\ \E i \in DOMAIN last.log :
                        /\ last.log[i].op = "updateBackuper" /\ last.log[i].id = c.id
                        /\ NextProc(last.log, i) = Len(last.log) + 1

\* a create event was handled for a name whose companion was stopped
C19_Witness ==
    \E c \in last.pre :
        /\ CreateOnCurrent(c) /\ c.state = "exited"
        /\ last.err = "nil" /\ ~last.failed

\* the containers of S that the lookup recorded as entry e returns
Matches(S, e) ==
    {c \in S : Label(c, e.key) = e.name /\ (e.all \/ c.state \in Live)}

\* entry i of the record is a lookup by label value that more than one
\* container matched (a lookup of targets, whose number no handler changes,
\* or a lookup made before the handler changed anything)
AmbiguousAt(i) ==
    /\ last.log[i].op = "container_list" /\ last.log[i].name # AnyValue
    /\ ~(last.failed /\ last.failAt = CallNo(last.log, i))
    /\ Cardinality(Matches(last.pre, last.log[i])) > 1
    /\ \/ last.log[i].key = prepareLabels.backupName
       \/ \A k \in 1..(i - 1) : last.log[k].op \notin Mutating

\* C20: when a lookup by label value (a companion by backuper.name=N, a
\* target by backup.name=N) matches more than one container, the operation
\* that made it returns an error and issues no container_stop,
\* container_remove, container_create or container_start afterwards.
C20_AmbiguousLookupAborts ==
    \A i \in DOMAIN last.log :
        AmbiguousAt(i) =>
            /\ last.err # "nil"
            /\ \A j \in (i + 1)..Len(last.log) : last.log[j].op \notin Mutating

\* C21: a single-name management operation (create, remove, stop, start,
\* restore, force-backup) whose named target or companion does not exist
\* returns an error and leaves every container in the state it was in before
\* the call.  The container the command is about: the target for create,
\* restore and force-backup, the companion for stop, start and remove.
C21_MissingLeavesEngineAlone ==
    LET missing == IF last.kind \in {"create", "restore", "force-backup"}
                   THEN TargetsOf(last.pre, last.name) = {}
                   ELSE BackupersOf(last.pre, last.name) = {}
    IN  (last.kind \in {"create", "remove", "stop", "start", "restore", "force-backup"}
         /\ missing) =>
            /\ last.err # "nil"
            /\ cntrs = last.pre

\* entry i of the record is an engine call that failed: it returned an error,
\* the body it returned made the decode loop return one, the engine had no
\* room for the container, or the image reference had no repository
FailedAt(i) ==
    /\ IsCall(last.log[i])
    /\ \/ /\ last.failAt # 0 /\ CallNo(last.log, i) = last.failAt
          /\ \/ last.stream = <<>>
             \/ last.log[i].op \notin {"image_pull", "image_build"}
             \/ decode([log |-> <<>>], last.stream,
                       last.log[i].op = "image_build").err # "nil"
       \/ last.log[i].op = "container_create" /\ last.log[i].id = 0
       \/ last.log[i].op = "image_pull" /\ last.log[i].image[1] = ""

\* C22: each *_all management operation (stop-all, start-all, remove-all,
\* create-all, restore-all, force-backup-all, pull-all, build-all) returns at
\* the first element whose processing fails and issues no engine call for any
\* remaining element: after a failed engine call the operation returns an
\* error and no one-off run of another target begins (restore-all,
\* force-backup-all), no engine call at all is issued (the others).
C22_AllStopsAtFirstFailure ==
    last.kind \in {"stop-all", "start-all", "remove-all", "create-all", "restore-all",
                   "force-backup-all", "pull-all", "build-all"} =>
        \A i \in DOMAIN last.log :
            FailedAt(i) =>
                /\ last.err # "nil"
                /\ \A j \in (i + 1)..Len(last.log) :
                      IF last.kind \in {"restore-all", "force-backup-all"}
                      THEN last.log[j].op # "oneOff"
                      ELSE ~IsCall(last.log[j])

\* restore-all over two targets has failed in the run of the first one, whose
\* companion it had stopped, and has left the second target alone
C22_Witness ==
    /\ last.kind = "restore-all"
    /\ Cardinality({c \in last.pre : c.labels.backupName # None}) = 2
    /\ \E i \in DOMAIN last.log : FailedAt(i) /\ last.log[i].op = "container_create"
    /\ Cardinality({i \in DOMAIN last.log : last.log[i].op = "oneOff"}) = 1
    /\ \E i \in DOMAIN last.log : last.log[i].op = "container_stop"
    /\ last.err = "engine"

\* C23: ensure_image with force=false (pullImage and buildImage as
\* createContainer calls them) issues image_pull or image_build only if
\* image_list reports no image whose repo tag equals the requested tag
\* normalized with :latest; when such an image exists, neither a pull nor a
\* build is issued.  In every run of init, create and restore: an image_list
\* precedes an image_pull or image_build, and the requested reference, with
\* :latest when it names no tag, is not among the images the engine had nor
\* among those the run has pulled or built before (a pull or build that
\* failed in the engine leaves no image).
C23_NoPullOrBuildWhenCached ==
    [][last'.kind \in {"init", "create", "restore"} =>
          \A i \in DOMAIN last'.log :
              last'.log[i].op \in {"image_pull", "image_build"} =>
                  LET ref == last'.log[i].image
                      normalized == IF ref[2] = "" THEN <<ref[1], "latest">> ELSE ref
                  IN  /\ normalized \notin images
                      /\ \E k \in 1..(i - 1) : last'.log[k].op = "image_list"
                      /\ \A k \in 1..(i - 1) :
                            (/\ last'.log[k].op \in {"image_pull", "image_build"}
                             /\ last'.log[k].image = ref) =>
                                /\ CallNo(last'.log, k) = last'.failAt
                                /\ \/ last'.stream = <<>>
                                   \/ Contains(last'.stream, "error")]_vars

\* C24: when an image is built, every dependent build of its build info is
\* ensured, in list order, before the image_build of the owner is issued, and
\* a failure of a dependent prevents the image_build of the owner.  In every
\* run of init, create, restore and build-all: between the image_list of the
\* owner and its image_build lie exactly the ensures of the dependents, in
\* list order (an image_list each, followed by the image_build of the
\* dependent when it is built), none of these calls has failed, and every
\* dependent that was not built there was among the images of the engine or
\* has been built earlier in the run.
C24_DependentsBeforeOwner ==
    [][last'.kind \in {"init", "create", "restore", "build-all"} =>
          LET log == last'.log
              deps == BuildTemplates.Backuper.Build.DependentBuilds
              RECURSIVE ensures(_, _)
              ensures(ds, b) ==
                  IF ds = <<>> THEN <<>>
                  ELSE <<<<"image_list", <<>>>>>>
                       \o (IF Head(b) THEN <<<<"image_build", Normalize(Head(ds).Tag)>>>>
                           ELSE <<>>)
                       \o ensures(Tail(ds), Tail(b))
          IN  \A i \in DOMAIN log :
                  (/\ log[i].op = "image_build"
                   /\ \A d \in DOMAIN deps : log[i].image # Normalize(deps[d].Tag)) =>
                      \E s \in 1..(i - 1), b \in [DOMAIN deps -> BOOLEAN] :
                          /\ log[s].op = "image_list"
                          /\ [k \in 1..(i - 1 - s) |->
                                 <<log[s + k].op, log[s + k].image>>] = ensures(deps, b)
                          /\ \A k \in s..(i - 1) : ~FailedAt(k)'
                          /\ \A d \in DOMAIN deps :
                                ~b[d] => \/ Normalize(deps[d].Tag) \in images
                                         \/ \E k \in 1..(s - 1) :
                                               /\ log[k].op = "image_build"
                                               /\ log[k].image = Normalize(deps[d].Tag)]_vars

\* create has built both dependents, base before tools, and then the owner
C24_Witness ==
    /\ last.kind = "create"
    /\ last.err = "nil"
    /\ \E i, j, k \in DOMAIN last.log :
          /\ i < j /\ j < k
          /\ last.log[i].op = "image_build" /\ last.log[i].image = <<"base", "1">>
          /\ last.log[j].op = "image_build" /\ last.log[j].image = <<"tools", "latest">>
          /\ last.log[k].op = "image_build"
          /\ last.log[k].image = <<Config.BackupTag, "latest">>

InitCompose ==
    /\ cntrs = {}
    /\ images = {}
    /\ pc = "connect"
    /\ ret = None
    /\ eventChan = <<>>
    /\ errChan = "none"
    /\ cancelled = FALSE
    /\ \/ \E v, n, d, e \in {<<>>, <<1>>, <<1, 2>>},
             ov, on, od, oe \in {<<>>, <<2>>, <<2, 3>>, <<3, 2>>} :
             last = [kind |-> "templates",
                     tmpl |-> [EmptyTemplate EXCEPT !.Volumes = v, !.Networks = n,
                                                    !.Devices = d, !.EnvFile = e],
                     other |-> <<[EmptyTemplate EXCEPT !.Volumes = ov, !.Networks = on,
                                                       !.Devices = od, !.EnvFile = oe]>>,
                     newTmpl |-> <<>>]
       \/ \E image \in {<<>>, <<"alpine", "">>}, oimage \in {<<>>, <<"restore", "">>},
             build, obuild \in {NoBuild, [NoBuild EXCEPT !.Context = "."],
                                [NoBuild EXCEPT !.Dockerfile = "Dockerfile"],
                                [NoBuild EXCEPT !.DependentBuilds =
                                    <<[Context |-> "base", Dockerfile |-> "",
                                       Tag |-> <<"base", "1">>]>>]} :
             last = [kind |-> "templates",
                     tmpl |-> [EmptyTemplate EXCEPT !.Image = image, !.Build = build],
                     other |-> <<[EmptyTemplate EXCEPT !.Image = oimage,
                                                       !.Build = obuild]>>,
                     newTmpl |-> <<>>]
       \/ \E tmpl \in {UserTemplates.Backuper,
                        [UserTemplates.Backuper EXCEPT
                            !.Volumes = <<Bind(1, 0, TRUE), 700>>, !.Networks = <<1>>,
                            !.Environment = {<<"KEY", 1>>}]},
             path \in 0..2,
             mpath \in {m \in SUBSET ((1..2) \X (1..2)) :
                           \A x, y \in m : x[1] = y[1] => x = y},
             vols \in SUBSET {700, 800},
             env \in {{}, {<<"KEY", 1>>}, {<<"KEY", 2>>}},
             nets \in {<<>>, <<1>>, <<1, 2>>, <<2, 1>>},
             rw, alwaysRw \in BOOLEAN :
             last = [kind |-> "labels", tmpl |-> tmpl,
                     cntr |-> [tl |-> [path |-> path, mpath |-> mpath, vols |-> vols,
                                       env |-> env, nets |-> nets]],
                     rw |-> rw, conf |-> [Config EXCEPT !.AlwaysRw = alwaysRw],
                     other |-> <<>>, newTmpl |-> <<>>]

\* newTmpl := tmpl.Overlay(other)
ApplyOverlay ==
    /\ last.kind = "templates"
    /\ last' = [last EXCEPT !.kind = "overlay",
                            !.newTmpl = <<Overlay(last.tmpl, last.other[1])>>]
    /\ UNCHANGED <<cntrs, images, pc, ret, eventChan, errChan, cancelled>>

\* backuperCfg := mngr.tmpls.Backuper.Overlay(backuperBaseCfg), with the
\* labels of the target enumerated in one of the orders of the map; any
\* number of times
Compose(rev) ==
    /\ last.kind \in {"labels", "composed"}
    /\ LET backuperBaseCfg1 == backuperBaseCfg(last.cntr, "a", last.rw, rev, last.conf)
       IN  last' = [last EXCEPT !.kind = "composed",
                                !.other = <<backuperBaseCfg1>>,
                                !.newTmpl = <<Overlay(last.tmpl, backuperBaseCfg1)>>]
    /\ UNCHANGED <<cntrs, images, pc, ret, eventChan, errChan, cancelled>>

ComposeNext ==
    \/ ApplyOverlay
    \/ \E rev \in BOOLEAN : Compose(rev)

SpecCompose == InitCompose /\ [][ComposeNext]_vars

\* C26: for each of the fields volumes, networks, devices and env_file, the
\* field of base.overlay(extra) is exactly the duplicate-free union of the
\* values of base and the values of extra, sorted ascending.
C26_OverlayIsSortedUnion ==
    last.kind = "overlay" =>
        \A f \in {"Volumes", "Networks", "Devices", "EnvFile"} :
            last.newTmpl[1][f] =
                Sort(SetToSeq(Range(last.tmpl[f]) \cup Range(last.other[1][f]), FALSE))

\* C27: for any templates a and b, permuting the elements of volumes,
\* networks, devices or env_file in a or in b does not change the hash of
\* a.overlay(b).
C27_HashIgnoresOrder ==
    last.kind = "overlay" =>
        LET Perms(s) == {q \in [DOMAIN s -> Range(s)] : Range(q) = Range(s)}
            Permuted(t) ==
                {[t EXCEPT !.Volumes = v, !.Networks = n, !.Devices = d, !.EnvFile = e] :
                    v \in Perms(t.Volumes), n \in Perms(t.Networks),
                    d \in Perms(t.Devices), e \in Perms(t.EnvFile)}
        IN  \A a \in Permuted(last.tmpl), b \in Permuted(last.other[1]) :
                Hash(Overlay(a, b)) = Hash(last.newTmpl[1])

\* C28: for a fixed backuper template and a fixed set of target labels, the
\* hash of backuper.overlay(prepare(T)) is the same value on every
\* invocation, whatever the order in which the labels of the target are
\* enumerated: composing again, with the labels in any order, leaves the hash
\* as it was.
C28_HashIgnoresLabelOrder ==
    [][(last.kind = "composed" /\ last'.kind = "composed") =>
          Hash(last'.newTmpl[1]) = Hash(last.newTmpl[1])]_vars

\* composed from two path labels and two volume labels, which the other
\* order of enumeration hands to Overlay as different lists
C28_Witness ==
    /\ last.kind = "composed"
    /\ Cardinality(last.cntr.tl.mpath) = 2
    /\ Cardinality(last.cntr.tl.vols) = 2
    /\ \E rev \in BOOLEAN :
          backuperBaseCfg(last.cntr, "a", last.rw, rev, last.conf).Volumes
              # last.other[1].Volumes
    /\ Len(last.newTmpl[1].Volumes) = 4

\* the label sets that differ from tl in one label prepare reads: the path
\* label (when there is no path.<suffix> label), a path.<suffix> label, a
\* volume label, an env label or the networks label, with another value,
\* added or removed
OneLabelChanged(tl) ==
    LET paths == IF tl.mpath = {} THEN {[tl EXCEPT !.path = p] : p \in 0..2} ELSE {}
        mpaths == {[tl EXCEPT !.mpath = m] :
                     m \in {m \in SUBSET ((1..2) \X (1..2)) :
                               /\ \A x, y \in m : x[1] = y[1] => x = y
                               /\ Cardinality({x[1] : x \in m \cup tl.mpath}
                                               \ {x[1] : x \in m \cap tl.mpath}) = 1}}
        vols == {[tl EXCEPT !.vols = v] :
                   v \in {v \in SUBSET {700, 800} :
                             /\ Cardinality(v \ tl.vols) <= 1
                             /\ Cardinality(tl.vols \ v) <= 1}}
        envs == {[tl EXCEPT !.env = e] : e \in {{}, {<<"KEY", 1>>}, {<<"KEY", 2>>}}}
        nets == {[tl EXCEPT !.nets = n] : n \in {<<>>, <<1>>, <<1, 2>>, <<2, 1>>}}
    IN  (paths \cup mpaths \cup vols \cup envs \cup nets) \ {tl}

\* C29 as stated: changing the value of, adding or removing any single
\* target label that prepare reads changes the hash of
\* backuper.overlay(prepare(T)).
C29_AnyLabelChangesHash ==
    last.kind = "composed" =>
        \A tl \in OneLabelChanged(last.cntr.tl), rev \in BOOLEAN :
            Hash(Overlay(last.tmpl, backuperBaseCfg([tl |-> tl], "a", last.rw, rev,
                                                    last.conf)))
                # Hash(last.newTmpl[1])

\* C29, amended: changing the value of, adding or removing a single target
\* label that prepare reads changes the hash of backuper.overlay(prepare(T))
\* exactly when it changes the set of volumes, the environment or the set of
\* networks of the composed configuration: a label that gives a bind, a
\* network or an environment value the template or another label gives
\* already, and a networks label with the same networks in another order,
\* leave the hash as it was.
C29_HashFollowsComposition ==
    last.kind = "composed" =>
        LET Composition(cfg) ==
                <<Range(last.tmpl.Volumes) \cup Range(cfg.Volumes),
                  MapsCopy(last.tmpl.Environment, cfg.Environment),
                  Range(last.tmpl.Networks) \cup Range(cfg.Networks)>>
        IN  \A tl \in OneLabelChanged(last.cntr.tl), rev \in BOOLEAN :
                LET cfg == backuperBaseCfg([tl |-> tl], "a", last.rw, rev, last.conf)
                IN  Hash(Overlay(last.tmpl, cfg)) # Hash(last.newTmpl[1])
                        <=> Composition(cfg) # Composition(last.other[1])

\* composed from a volume label that repeats a volume of the template, and
\* from a networks label whose networks can be listed in another order
C29_Witness ==
    /\ last.kind = "composed"
    /\ 700 \in last.cntr.tl.vols
    /\ Contains(last.tmpl.Volumes, 700)
    /\ last.cntr.tl.nets = <<2, 1>>
    /\ last.cntr.tl.path = 1
    /\ Hash(Overlay(last.tmpl,
                    backuperBaseCfg([tl |-> [last.cntr.tl EXCEPT !.vols = @ \ {700}]],
                                    "a", last.rw, FALSE, last.conf)))
          = Hash(last.newTmpl[1])
    /\ Hash(Overlay(last.tmpl,
                    backuperBaseCfg([tl |-> [last.cntr.tl EXCEPT !.path = 2]],
                                    "a", last.rw, FALSE, last.conf)))
          # Hash(last.newTmpl[1])

\* C30: every primary-path bind prepare produces, the one from the single
\* path label as well as each one from a path.<suffix> label, ends with :ro
\* if and only if rw is false and config.always_rw is false.  The binds of
\* the path labels come first in the volumes of the prepared configuration.
C30_PrimaryBindsReadOnly ==
    last.kind = "composed" =>
        LET tl == last.cntr.tl
            primary == IF tl.mpath # {} THEN Cardinality(tl.mpath)
                       ELSE IF tl.path # 0 THEN 1 ELSE 0
        IN  \A i \in 1..primary :
                (last.other[1].Volumes[i] % 10 = 1)
                    <=> (~last.rw /\ ~last.conf.AlwaysRw)

TemplatesNext ==
    \E cmd \in {"init", "create", "restore", "force-backup"}, name \in Names,
       t \in {UserTemplates, LabelledTemplates}, failAt \in 0..MaxFail, race \in Races :
       WithTemplates(cmd, name, t, failAt, <<>>, race)

SpecTemplates == InitAll /\ [][TemplatesNext]_vars

\* C32: no reconciliation, event handling, one-off or management operation
\* changes the content of the backuper, restore or force-backup template of
\* the manager: Overlay returns a new template and leaves its base as it
\* was, also when the hash label or autoRemove is written on the result
\* afterwards.  What the manager holds when the operation returns is what
\* its process has loaded.
C32_TemplatesUnchanged ==
    last.kind # "none" =>
        /\ last.tmpls \in {UserTemplates, LabelledTemplates}
        /\ \A i \in DOMAIN last.log :
              (/\ last.log[i].op = "container_create"
               /\ last.log[i].labels.hash # NoHash) =>
                  last.log[i].labels.user = last.tmpls.Backuper.Labels.user

\* a companion was created from a backuper template that has a label of its
\* own, with the hash label written on the composed configuration, and a
\* one-off container from the restore template with autoRemove
C32_Witness ==
    /\ last.tmpls = LabelledTemplates
    /\ \/ /\ last.kind = "init"
          /\ \E i \in DOMAIN last.log :
                /\ last.log[i].op = "container_create"
                /\ last.log[i].id # 0
                /\ last.log[i].labels.hash # NoHash
                /\ last.log[i].labels.user = "x"
                /\ last.log[i].labels.backuperName # None
       \/ /\ last.kind = "restore"
          /\ \E i \in DOMAIN last.log :
                /\ last.log[i].op = "container_create"
                /\ last.log[i].id # 0
                /\ last.log[i].autoRemove
                /\ last.log[i].labels.user = "x"

\* ---------------------------------------------------------- label prefixes
\* the LABEL_PREFIX of a second daemon on the same engine
OtherPrefixes ==
    {"other", "docker-backup-maestro.backup", "docker-backup-maestro.backuper"}

\* the containers of S with the ids F labelled by a daemon of prefix p: the
\* keys of their labels, and the name of a companion, derive from p
Foreign(S, F, p) ==
    {IF c.id \in F
     THEN [c EXCEPT !.labels.prefix = p,
                    !.cname = IF c.labels.backuperName # None
                              THEN <<p \o ".backup_", c.labels.backuperName>>
                              ELSE @]
     ELSE c : c \in S}

InitPrefix ==
    /\ \E members \in SUBSET ({"target", "companion"} \X {"a", "b"}) :
          /\ Cardinality(members) <= MaxId
          /\ \E state \in [members -> {"running", "exited"}],
                F \in SUBSET (1..Cardinality(members)), p \in OtherPrefixes :
                /\ F # {}
                /\ cntrs = Foreign(Fleet(members, state), F, p)
    /\ images = {}
    /\ pc = "connect"
    /\ ret = None
    /\ eventChan = <<>>
    /\ errChan = "none"
    /\ cancelled = FALSE
    /\ last = NoOp

\* one command of the daemon of the default prefix, or its reconciliation
PrefixNext ==
    \/ \E cmd \in {"init", "create", "restore", "force-backup"}, name \in {"a", "b"},
          failAt \in 0..MaxFail, race \in Races :
          WithTemplates(cmd, name, UserTemplates, failAt, <<>>, race)
    \/ \E cmd \in {"stop", "start", "remove"}, name \in {"a", "b"},
          failAt \in 0..MaxFail, rev \in BOOLEAN : CliCompanion(cmd, name, failAt, rev)
    \/ \E cmd \in {"stop-all", "start-all", "remove-all"},
          failAt \in 0..MaxFail, rev \in BOOLEAN : CliCompanions(cmd, failAt, rev)
    \/ \E failAt \in 0..MaxFail, rev \in BOOLEAN : CliCreateAll(failAt, rev)

SpecPrefix == InitPrefix /\ [][PrefixNext]_vars

\* C33: with two daemons of different label prefixes on one engine, no
\* operation of one stops, removes, starts or recreates a container the
\* other has labelled, and none creates a companion for a name that only a
\* container of the other prefix carries as its backup.name.
C33_PrefixIsolation ==
    last.kind # "none" =>
        /\ \A c \in last.pre : c.labels.prefix # NoLabels.prefix =>
              /\ c \in cntrs
              /\ \A i \in DOMAIN last.log :
                    last.log[i].op \in {"container_stop", "container_remove",
                                        "container_start", "container_restart"}
                        => last.log[i].id # c.id
        /\ \A i \in DOMAIN last.log :
              (/\ last.log[i].op = "container_create"
               /\ last.log[i].labels.backuperName # None) =>
                  /\ last.log[i].labels.prefix = NoLabels.prefix
                  /\ \E t \in last.pre :
                        /\ t.labels.prefix = NoLabels.prefix
                        /\ t.labels.backupName = last.log[i].labels.backuperName

\* the daemon has stopped, removed or created its own companion of a name on
\* an engine where a companion of the other prefix has that name
C33_Witness ==
    /\ last.kind \in {"init", "remove-all", "stop-all"}
    /\ \E c \in last.pre, i \in DOMAIN last.log :
          /\ c.labels.prefix # NoLabels.prefix
          /\ c.labels.backuperName # None
          /\ last.log[i].op \in {"container_stop", "container_remove", "container_create"}
          /\ last.log[i].id \notin {0, c.id}
          /\ \E d \in last.pre \cup cntrs :
                /\ d.id = last.log[i].id
                /\ d.labels.prefix = NoLabels.prefix
                /\ d.labels.backuperName = c.labels.backuperName

\* C34: pull-all issues one image pull for each of the backuper, restore and
\* force-backup templates that declares an image, and each pull is for the
\* image of that template: every reference is pulled as many times as there
\* are templates that declare it.
C34_PullAllOwnImages ==
    (last.kind = "pull-all" /\ last.err = "nil") =>
        LET declared == {k \in {"Backuper", "Restore", "ForceBackup"} :
                            last.tmpls[k].Image # <<>>}
            refs == {Normalize(last.tmpls[k].Image) : k \in declared}
                        \cup {last.log[i].image : i \in DOMAIN last.log}
        IN  \A ref \in refs :
                Cardinality({i \in DOMAIN last.log :
                                /\ last.log[i].op = "image_pull"
                                /\ last.log[i].image = ref})
                    = Cardinality({k \in declared : Normalize(last.tmpls[k].Image) = ref})

\* C35: every call of updateBackuper and of createBackuper returns after a
\* bounded number of engine calls: the chain updateBackuper -> dropBackuper,
\* createBackuper -> updateBackuper is never entered again with the engine
\* state and the companion hash it was entered with before, also when the
\* companion of the name is stopped and its hash differs from the recomputed.
C35_ChainTerminates ==
    last.kind \in {"create", "create-all", "init", "event"} =>
        last.err # "diverge"

\* -------------------------------------------- two processes on one engine
\* a process between two engine calls: pc is the call it issues next, cntr the
\* companion its lookup returned, cfg the template it composed, id the
\* container it created, next where it goes after dropBackuper
Proc(at, name) ==
    [pc |-> at, name |-> name, cntr |-> <<>>, cfg |-> <<>>, id |-> 0,
     next |-> "done", err |-> "nil", oneOff |-> FALSE]

Done(p, err) == [p EXCEPT !.pc = "done", !.err = err]

\* one engine call of the process p on the engine w, and what p does with the
\* result up to its next engine call
Step(p, w) ==
    LET go(r, q) == [p |-> IF r.err # "nil" THEN Done(p, r.err) ELSE q, w |-> r.w]
        find(label, all) == getContainerByLabelValue(w, label, p.name, all)
        tag == IF p.oneOff THEN Config.RestoreTag ELSE Config.BackupTag
        cntrName == ReplaceAll(IF p.oneOff THEN Config.RestoreNameFormat
                               ELSE Config.BackupNameFormat, p.name)
    IN  CASE p.pc = "CreateBackuper" ->
                LET r == find(prepareLabels.backuperName, TRUE)
                IN  go(r, IF r.val # <<>> THEN Done(p, "exists")
                          ELSE [p EXCEPT !.pc = "CreateBackuper2"])
          [] p.pc = "CreateBackuper2" ->
                LET r == find(prepareLabels.backupName, TRUE)
                IN  go(r, IF r.val = <<>> THEN Done(p, "notfound")
                          ELSE [p EXCEPT !.pc = "createBackuper"])
          [] p.pc = "CreateAll" ->
                LET r == listContainersWithLabel(w, prepareLabels.backupName, TRUE)
                IN  go(r, IF First(r.val, prepareLabels.backupName, p.name) = <<>>
                          THEN Done(p, "nil")
                          ELSE [p EXCEPT !.pc = "CreateAll2"])
          [] p.pc = "CreateAll2" ->
                LET r == find(prepareLabels.backuperName, TRUE)
                IN  go(r, IF r.val # <<>> THEN Done(p, "nil")
                          ELSE [p EXCEPT !.pc = "createBackuper"])
          [] p.pc = "initBackupers" ->
                LET r == listContainersWithLabel(w, prepareLabels.backuperName, TRUE)
                IN  go(r, [p EXCEPT !.pc = "initBackupers2",
                                    !.cntr = First(r.val, prepareLabels.backuperName,
                                                   p.name)])
          [] p.pc = "initBackupers2" ->
                LET r == listContainersWithLabel(w, prepareLabels.backupName, FALSE)
                    toBackup == First(r.val, prepareLabels.backupName, p.name)
                IN  go(r, IF toBackup = <<>>
                          THEN IF p.cntr = <<>> THEN Done(p, "nil")
                               ELSE [p EXCEPT !.pc = "dropBackuper", !.next = "done"]
                          ELSE IF p.cntr = <<>> THEN [p EXCEPT !.pc = "createBackuper"]
                               ELSE [p EXCEPT !.pc = "updateBackuper"])
          [] p.pc = "createBackuper" ->
                LET r == find(prepareLabels.backuperName, TRUE)
                IN  go(r, IF r.val # <<>>
                          THEN [p EXCEPT !.pc = "createBackuper2", !.cntr = r.val]
                          ELSE [p EXCEPT !.pc = "prepare"])
          [] p.pc = "createBackuper2" ->
                LET r == find(prepareLabels.backupName, TRUE)
                IN  go(r, IF r.val = <<>> THEN Done(p, "panic")
                          ELSE [p EXCEPT !.pc = "updateBackuper"])
          [] p.pc = "updateBackuper" ->
                LET r == prepareBackuperConfigFor(w, p.name, FALSE)
                IN  go(r, IF Hash(Overlay(w.tmpls.Backuper, r.val[1]))
                                = p.cntr[1].labels.hash
                          THEN Done(p, "nil")
                          ELSE [p EXCEPT !.pc = "dropBackuper",
                                         !.next = "createBackuper"])
          [] p.pc = "dropBackuper" ->
                LET r == find(prepareLabels.backuperName, FALSE)
                IN  go(r, IF r.val = <<>>
                          THEN IF p.next = "done" THEN Done(p, "nil")
                               ELSE [p EXCEPT !.pc = p.next]
                          ELSE [p EXCEPT !.pc = "stop", !.cntr = r.val])
          [] p.pc = "stop" ->
                go(ContainerStop(w, p.cntr[1].id), [p EXCEPT !.pc = "remove"])
          [] p.pc = "remove" ->
                go(ContainerRemove(w, p.cntr[1].id),
                   IF p.next = "done" THEN Done(p, "nil") ELSE [p EXCEPT !.pc = p.next])
          [] p.pc = "prepare" ->
                LET r == prepareBackuperConfigFor(w, p.name, FALSE)
                IN  go(r, [p EXCEPT !.pc = "imageList",
                                    !.cfg = <<WithHash(Overlay(w.tmpls.Backuper,
                                                               r.val[1]))>>])
          [] p.pc = "oneOff" ->
                LET r == find(prepareLabels.backuperName, FALSE)
                IN  go(r, [p EXCEPT !.pc = IF r.val # <<>> THEN "oneOffStop"
                                           ELSE "oneOffPrepare",
                                    !.cntr = r.val])
          [] p.pc = "oneOffStop" ->
                go(ContainerStop(w, p.cntr[1].id), [p EXCEPT !.pc = "oneOffPrepare"])
          [] p.pc = "oneOffPrepare" ->
                LET r == prepareBackuperConfigFor(w, p.name, TRUE)
                IN  go(r, [p EXCEPT !.pc = "imageList",
                                    !.cfg = <<oneOffCfg(r.val[1], w.tmpls.Restore,
                                                        Config.RestoreTag, p.name)>>])
          [] p.pc = "imageList" ->
                LET r == ImageList(w)
                IN  go(r, [p EXCEPT !.pc = IF Normalize(CreateConfig(p.cfg[1], tag).image)
                                                 \in w.images
                                           THEN "create" ELSE "pull"])
          [] p.pc = "pull" ->
                go(ImagePull(w, Normalize(CreateConfig(p.cfg[1], tag).image)),
                   [p EXCEPT !.pc = "create"])
          [] p.pc = "create" ->
                LET r == ContainerCreate(w, CreateConfig(p.cfg[1], tag), cntrName)
                IN  go(r, [p EXCEPT !.pc = IF p.oneOff THEN "waitForStop" ELSE "start",
                                    !.id = r.val[1]])
          [] p.pc = "start" ->
                go(ContainerStart(w, p.id), Done(p, "nil"))
          [] p.pc = "waitForStop" ->
                go(Events(w, p.id), [p EXCEPT !.pc = "oneOffStart"])
          [] p.pc = "oneOffStart" ->
                go(ContainerStart(w, p.id), [p EXCEPT !.pc = "wait"])
          [] p.pc = "restart" ->
                go(ContainerStart(w, p.cntr[1].id), Done(p, "nil"))

\* the engine calls that change a container, as the race record keeps them
Changes == {"container_create", "container_start", "container_stop", "container_remove"}

\* the process who of the race issues its next engine call
RaceStep(who) ==
    /\ last.kind = "race"
    /\ last[who].pc \notin {"done", "wait"}
    /\ LET r == Step(last[who], [World(cntrs, images, 0, FALSE) EXCEPT !.used = last.used])
           e == r.w.log[Len(r.w.log)]
       IN  /\ Apply(r)
           /\ last' = [last EXCEPT
                          ![who] = r.p,
                          !.used = @ \cup {c.id : c \in cntrs \ r.w.cntrs},
                          !.log = IF e.op \in Changes
                                  THEN Append(@, [who |-> who, op |-> e.op, id |-> e.id])
                                  ELSE @]
    /\ UNCHANGED <<eventChan, Daemon>>

\* a target a, with or without a companion that has the hash of bind path 1,
\* and two processes about to make the companion of a: the daemon (on the
\* create event of a, or in its reconciliation) and a create or create-all
InitRace ==
    /\ \E members \in SUBSET {<<"companion", "a">>},
          tl \in TargetLabelChoices, images0 \in SUBSET {<<"alpine", "latest">>},
          daemon \in {"createBackuper", "initBackupers"},
          cli \in {"CreateBackuper", "CreateAll"} :
          \E state \in [members \cup {<<"target", "a">>} -> {"running", "exited"}] :
             /\ cntrs = {IF c.labels.backupName # None THEN [c EXCEPT !.tl = tl] ELSE c :
                            c \in Fleet(members \cup {<<"target", "a">>}, state)}
             /\ images = images0
             /\ last = [kind |-> "race", daemon |-> Proc(daemon, "a"),
                        cli |-> Proc(cli, "a"), used |-> {}, log |-> <<>>,
                        pre |-> cntrs]
    /\ pc = "loop"
    /\ ret = None
    /\ eventChan = <<>>
    /\ errChan = "none"
    /\ cancelled = FALSE

RaceNext == \E who \in {"daemon", "cli"} : RaceStep(who)

SpecRace == InitRace /\ [][RaceNext]_vars

\* C38: when createBackuper for a name in the daemon (on an event or in the
\* reconciliation) runs concurrently with create or create-all for that name
\* in another process, interleaved at single engine calls, at most one
\* container labelled backuper.name with that name ends up created: at no
\* moment does the engine hold two.
C38_AtMostOneCompanion ==
    last.kind = "race" =>
        /\ Cardinality(BackupersOf(cntrs, "a")) <= 1
        /\ (BackupersOf(last.pre, "a") = {} =>
               Cardinality({i \in DOMAIN last.log :
                               last.log[i].op = "container_create"
                                  /\ last.log[i].id # 0}) <= 1)

\* both processes have found no companion and have asked the engine to
\* create one: one request was served, the other refused
C38_Witness ==
    /\ last.kind = "race"
    /\ last.daemon.pc = "done" /\ last.cli.pc = "done"
    /\ \E i, j \in DOMAIN last.log :
          /\ last.log[i].op = "container_create" /\ last.log[j].op = "container_create"
          /\ last.log[i].who = "daemon" /\ last.log[j].who = "cli"
          /\ (last.log[i].id = 0) # (last.log[j].id = 0)
    /\ Cardinality(BackupersOf(cntrs, "a")) = 1

\* -------------------------------------------- a one-off and the event loop
\* restore a is about to run, with the daemon in its select: target a runs
\* and has its companion, running or stopped
InitFlight ==
    /\ \E state \in [{<<"target", "a">>, <<"companion", "a">>} -> {"running", "exited"}],
          images0 \in SUBSET {<<"restore", "latest">>} :
          /\ state[<<"target", "a">>] = "running"
          /\ cntrs = Fleet({<<"target", "a">>, <<"companion", "a">>}, state)
          /\ images = images0
          /\ last = [kind |-> "race", daemon |-> Done(Proc("done", "a"), "nil"),
                     cli |-> [Proc("oneOff", "a") EXCEPT !.oneOff = TRUE],
                     used |-> {}, log |-> <<>>, pre |-> cntrs]
    /\ pc = "loop"
    /\ ret = None
    /\ eventChan = <<>>
    /\ errChan = "none"
    /\ cancelled = FALSE

\* the one-off is in flight: the companion was looked up and the command has
\* not returned
InFlight == last.cli.pc \notin {"oneOff", "done"}

\* the target dies while the one-off is in flight
FlightDie(c) ==
    /\ last.kind = "race" /\ InFlight
    /\ c \in Targets /\ c.state \in Live
    /\ cntrs' = SetState(cntrs, c.id, "exited")
    /\ Emit("die", c.labels.backupName)
    /\ last' = [last EXCEPT !.log = Append(@, [who |-> "engine", op |-> "die", id |-> c.id])]
    /\ UNCHANGED <<images, Daemon>>

\* the dead target is removed
FlightDestroy(c) ==
    /\ last.kind = "race"
    /\ c \in Targets /\ c.state = "exited"
    /\ cntrs' = cntrs \ {c}
    /\ Emit("destroy", c.labels.backupName)
    /\ last' = [last EXCEPT !.used = @ \cup {c.id},
                            !.log = Append(@, [who |-> "engine", op |-> "destroy",
                                               id |-> c.id])]
    /\ UNCHANGED <<images, Daemon>>

\* the one-off container exits, the engine removes it (auto_remove) and the
\* die event ends waitForStop: if wasRunning, the companion is started next
OneOffExit ==
    /\ last.kind = "race"
    /\ last.cli.pc = "wait"
    /\ cntrs' = {c \in cntrs : c.id # last.cli.id}
    /\ last' = [last EXCEPT
                    !.cli = IF containerIsAlive(last.cli.cntr)
                            THEN [@ EXCEPT !.pc = "restart"]
                            ELSE Done(@, "nil"),
                    !.used = @ \cup {last.cli.id}]
    /\ UNCHANGED <<images, eventChan, Daemon>>

\* case event := <-eventChan: handleDockerEvent up to its first engine call
FlightRecv ==
    /\ last.kind = "race"
    /\ last.daemon.pc = "done" /\ eventChan # <<>>
    /\ eventChan' = Tail(eventChan)
    /\ last' = [last EXCEPT
                    !.daemon = IF Head(eventChan).action = "create"
                               THEN Proc("createBackuper", Head(eventChan).name)
                               ELSE IF Head(eventChan).action = "destroy"
                               THEN Proc("dropBackuper", Head(eventChan).name)
                               ELSE Done(Proc("done", Head(eventChan).name), "nil"),
                    !.log = Append(@, [who |-> "daemon", op |-> Head(eventChan).action,
                                       id |-> 0])]
    /\ UNCHANGED <<cntrs, images, Daemon>>

FlightNext ==
    \/ \E who \in {"daemon", "cli"} : RaceStep(who)
    \/ \E c \in cntrs : FlightDie(c)
    \/ \E c \in cntrs : FlightDestroy(c)
    \/ OneOffExit
    \/ FlightRecv

SpecFlight == InitFlight /\ [][FlightNext]_vars

\* C37: if the target of a name dies while a one-off for that name is in
\* flight in another process (the companion being stopped), then once the
\* daemon has handled the die event and the one-off has returned, no companion
\* of that name is running.
C37_NoCompanionAfterDeath ==
    (/\ last.kind = "race"
     /\ \E i \in DOMAIN last.log : last.log[i].who = "daemon" /\ last.log[i].op = "die"
     /\ last.cli.pc = "done" /\ last.daemon.pc = "done" /\ eventChan = <<>>) =>
        \A c \in BackupersOf(cntrs, "a") : c.state \notin Live

\* C36: in every connect and reconnect cycle the subscription is opened
\* before the snapshot lists are taken, so a target that starts or dies after
\* the snapshot is delivered as an event and handled after the
\* reconciliation, and its companion is created or dropped: once the loop
\* has handled the start event of a target that runs, the target has a
\* companion, and once it has handled the die event of a target that is
\* dead, no companion of the target is left running.
C36_EventsAfterSnapshotHandled ==
    /\ (last.kind = "init" /\ Len(last.log) >= 2) =>
          /\ last.log[1].op = "events"
          /\ last.log[2].op = "container_list"
    /\ (last.kind = "event" /\ last.err = "nil" /\ ~last.failed) =>
          /\ (/\ last.action = "start"
              /\ \E t \in TargetsOf(cntrs, last.name) : t.state \in Live) =>
                 BackupersOf(cntrs, last.name) # {}
          /\ (/\ last.action = "die"
              /\ \A t \in TargetsOf(cntrs, last.name) : t.state \notin Live) =>
                 \A c \in BackupersOf(cntrs, last.name) : c.state \notin Live

\* ------------------------------------------------ reconciliation repeated
\* target labels with more than one label of a kind: the order in which
\* prepareBackuperConfigFor meets them is the order of a map iteration
RichLabels ==
    TargetLabelChoices \cup
    { [NoTargetLabels EXCEPT !.mpath = {<<1, 1>>, <<2, 2>>}, !.vols = {700, 800},
                             !.env = {<<"K", "v">>, <<"L", "w">>}, !.nets = <<2, 1>>] }

\* a running target a; it has no companion, or one made for the labels tl0
\* when the map iteration went the way rev0
InitTwice ==
    /\ \E tl \in RichLabels, tl0 \in RichLabels, rev0 \in BOOLEAN,
          st \in {"none", "running", "exited"} :
          cntrs = {[id |-> 1, state |-> "running", cname |-> <<"target", "a">>,
                    labels |-> [NoLabels EXCEPT !.backupName = "a"], tl |-> tl,
                    autoRemove |-> FALSE]}
                  \cup (IF st = "none" THEN {}
                        ELSE {[id |-> 2, state |-> st,
                               cname |-> ReplaceAll(Config.BackupNameFormat, "a"),
                               labels |-> WithHash(Overlay(UserTemplates.Backuper,
                                              backuperBaseCfg([tl |-> tl0], "a", FALSE,
                                                              rev0, Config))).Labels,
                               tl |-> NoTargetLabels, autoRemove |-> FALSE]})
    /\ images = {}
    /\ pc = "connect"
    /\ ret = None
    /\ eventChan = <<>>
    /\ errChan = "none"
    /\ cancelled = FALSE
    /\ last = NoOp

\* the daemon alone on the engine: it reconciles, the stream ends, it
\* reconciles again
TwiceNext ==
    \/ \E failAt \in 0..MaxFail, rev \in BOOLEAN : Connect(failAt, rev)
    \/ Return
    \/ StreamError("EOF")
    \/ RecvErr

SpecTwice == InitTwice /\ [][TwiceNext]_vars

\* C39: a reconciliation that follows another, with no change to targets,
\* companion labels or templates in between, issues no container_create,
\* container_start, container_stop or container_remove: the hash stored at
\* creation is the hash updateBackuper computes again.
C39_SecondRunIssuesNothing ==
    (last.kind = "init" /\ last.action = "reconnect") =>
        \A i \in DOMAIN last.log : last.log[i].op \notin Changes
====
